---- MODULE Spec2Model ----
(***************************************************************************)
(* Model of the calendar service of video-chat-backend: the meeting store, *)
(* the conflict detector, the meeting lifecycle operations and the access  *)
(* gate (services/calendarService.ts, models/Meeting.ts,                   *)
(* models/MeetingParticipant.ts).  Every service method is one atomic      *)
(* action; the clock `now` advances between calls.                         *)
(***************************************************************************)
EXTENDS Integers, Sequences, FiniteSets, TLC

VARIABLES
  now,           \* the wall clock (new Date()), in milliseconds
  meetings,      \* the meetings table: a sequence, meetings[id] is row id
  participants,  \* the meeting_participants table: a set of rows
  call,          \* the last service call: its arguments and its outcome
  requests,      \* the service calls in flight: requests[r] is the position and
                 \* the local variables of call r
  store,         \* the rate limiter's store: store[clientId] is the count and
                 \* the reset time of the client's window
  responses      \* what the rate limiter answered, request by request

vars == <<now, meetings, participants, call, requests, store, responses>>

----------------------------------------------------------------------------
(* Bounds of the model *)

MaxTime == 4        \* request times range over 0..MaxTime steps of the clock
MaxClock == 2       \* the clock advances up to MaxClock steps
MaxMeetings == 2    \* rows the meetings table may hold (Spec)
MaxLifeMeetings == 1    \* rows the meetings table may hold (SpecLifecycle)
MaxAccessMeetings == 1  \* rows the meetings table may hold (SpecAccess)
MaxSlotMeetings == 2    \* rows the meetings table may hold (SpecSlots)
MaxPartMeetings == 1    \* rows the meetings table may hold (SpecParticipants)
MaxRaceMeetings == 2    \* rows the meetings table may hold (SpecRace)
MaxRequests == 2    \* calls that may be in flight (SpecRace, SpecRaceUpdate)
MaxUpdateMeetings == 1  \* rows the meetings table may hold (SpecRaceUpdate)
MaxHttpMeetings == 1    \* rows the meetings table may hold (SpecHttp)
MaxBookingMeetings == 2 \* rows the meetings table may hold (SpecBooking)
MaxVisMeetings == 2     \* rows the meetings table may hold (SpecVisibility)
MaxClients == 2     \* clients of the rate limiter (SpecRate)
MaxRateClock == 6   \* milliseconds the clock advances (SpecRate)
MaxRateRequests == 6    \* requests the rate limiter answers (SpecRate)
MaxInvited == 1     \* participant rows besides the organizers' own
NumUsers == 2       \* registered users 1..NumUsers

\* one step of the model's clock: 4 hours, in milliseconds
TimeStep == 4 * 60 * 60 * 1000

Users == 1..NumUsers

----------------------------------------------------------------------------
(* Values *)

\* null / undefined / '' of a password: the code only tests them by truthiness
Null == <<>>
\* no e-mail address given
NoEmail == ""
\* the result of a check that passed
OK == "ok"

MeetingStatus == {"scheduled", "in_progress", "completed", "cancelled"}

\* characters generateMeetingPassword draws from
GenCharset ==
  {"A","B","C","D","E","F","G","H","J","K","M","N","P","Q","R","S","T","U","V",
   "W","X","Y","Z","a","b","c","d","e","f","g","h","i","j","k","m","n","p","q",
   "r","s","t","u","v","w","x","y","z","2","3","4","5","6","7","8","9"}

\* characters validateMeetingPassword accepts
AllowedCharset ==
  GenCharset \cup
  {"I","L","O","l","o","0","1","!","@","#","$","%","^","&","*","(",")","_","+",
   "-","=","[","]","{","}",";","'",":","\"","\\","|",",",".","<",">","/","?"}

\* error messages of the service
ErrStartInPast == "Start time must be in the future"
ErrEndBeforeStart == "End time must be after start time"
ErrTooLong == "Meeting duration cannot exceed 8 hours"
ErrConflict == "Time conflict detected with existing meetings"
ErrChannelTooLong == "Agora channel name cannot exceed 100 characters"
ErrInvalidPassword == "Invalid password"
ErrNotFound == "Meeting not found"
ErrNotOrganizerUpdate == "Only the organizer can update this meeting"
ErrNotOrganizerCancel == "Only the organizer can cancel this meeting"
ErrNotOrganizerPassword == "Only the organizer can update the meeting password"
ErrNotModifiable == "This meeting cannot be modified"
ErrAlreadyCancelled == "Meeting is already cancelled"
ErrParticipantNotFound == "Participant not found"
ErrStore == "store constraint violated"
ErrAccessCancelled == "Meeting has been cancelled"
ErrAccessEnded == "Meeting has already ended"
ErrPasswordRequired == "Meeting password is required"
ErrPasswordInvalid == "Invalid meeting password"
ErrGuestNotAllowed == "Guest access is not allowed for this meeting"

----------------------------------------------------------------------------
(* models/Meeting.ts *)

isUpcoming(m, t) == m.startTime > t

\* canBeModified looking at the status alone
canBeModified_StatusOnly(m, t) == m.status = "scheduled"

canBeModified(m, t) == m.status = "scheduled" /\ isUpcoming(m, t)

\* an organizer check that lets every user through
isOrganizer_Anyone(m, userId) == TRUE

\* a cancelled check that never fires
isCancelled_Never(m) == FALSE

\* meeting.organizerId === userId
isOrganizer(m, userId) == m.organizerId = userId

\* meeting.status === 'cancelled'
isCancelled(m) == m.status = "cancelled"

requiresPassword(m) == m.isPasswordProtected /\ m.meetingPassword # Null

validatePassword(m, inputPassword) == m.meetingPassword = inputPassword

\* Model.update(values): only the provided fields change
Merge(values, row) ==
  [f \in DOMAIN row |-> IF f \in DOMAIN values THEN values[f] ELSE row[f]]

----------------------------------------------------------------------------
(* utils/agoraUtils.ts *)

\* the charset of generateMeetingPassword, in its order
charset ==
  <<"A","B","C","D","E","F","G","H","J","K","M","N","P","Q","R","S","T","U","V",
    "W","X","Y","Z","a","b","c","d","e","f","g","h","i","j","k","m","n","p","q",
    "r","s","t","u","v","w","x","y","z","2","3","4","5","6","7","8","9">>

\* generateMeetingPassword that stops after three characters
generateMeetingPassword_Truncated(length, randomInt) ==
  [i \in 1..3 |-> charset[randomInt[i] + 1]]

\* generateMeetingPassword(length); randomInt[i] is the value
\* crypto.randomInt(0, charset.length) returns in round i
generateMeetingPassword(length, randomInt) ==
  [i \in 1..length |-> charset[randomInt[i] + 1]]

validateMeetingPassword(password) ==
  /\ Len(password) >= 4
  /\ Len(password) <= 50
  /\ \A i \in 1..Len(password) : password[i] \in AllowedCharset

----------------------------------------------------------------------------
(* CalendarService private helpers *)

maxDuration == 8 * 60 * 60 * 1000

validateMeetingTimes(startTime, endTime, t) ==
  IF startTime <= t THEN ErrStartInPast
  ELSE IF endTime <= startTime THEN ErrEndBeforeStart
  ELSE IF endTime - startTime > maxDuration THEN ErrTooLong
  ELSE OK

\* A JavaScript object literal: a key written twice keeps its last value.
ObjectLiteral(props) ==
  LET keys == {props[i][1] : i \in DOMAIN props}
      last(k) == CHOOSE i \in DOMAIN props :
                   /\ props[i][1] = k
                   /\ \A j \in DOMAIN props : props[j][1] = k => j <= i
  IN [k \in keys |-> props[last(k)][2]]

\* Op.between is inclusive at both ends
Between(x, lo, hi) == lo <= x /\ x <= hi

\* Satisfies without the clause on the meeting's end time
Satisfies_NoEndClause(m, id, cond) ==
  CASE cond.op = "organizerOrAccepted" ->
         m.organizerId = cond.userId \/ id \in cond.ids
    [] cond.op = "timeRange" ->
         \/ Between(m.startTime, cond.startTime, cond.endTime)
         \/ (m.startTime <= cond.startTime /\ m.endTime >= cond.endTime)
    [] cond.op = "statusNe" -> m.status # cond.value
    [] cond.op = "idNe" -> id # cond.value

\* does row `id` = m satisfy one condition of a where clause
Satisfies(m, id, cond) ==
  CASE cond.op = "organizerOrAccepted" ->
         m.organizerId = cond.userId \/ id \in cond.ids
    [] cond.op = "timeRange" ->
         \/ Between(m.startTime, cond.startTime, cond.endTime)
         \/ Between(m.endTime, cond.startTime, cond.endTime)
         \/ (m.startTime <= cond.startTime /\ m.endTime >= cond.endTime)
    [] cond.op = "statusNe" -> m.status # cond.value
    [] cond.op = "idNe" -> id # cond.value

\* ids of the meetings in which userId has an accepted participant row
acceptedMeetingIds(rows, userId) ==
  {p.meetingId : p \in {r \in rows : r.userId = userId /\ r.status = "accepted"}}

conflictWhereClause(rows, userId, startTime, endTime, excludeMeetingId) ==
  LET whereClause == ObjectLiteral(<<
        <<"Op.or", [op |-> "organizerOrAccepted", userId |-> userId,
                    ids |-> acceptedMeetingIds(rows, userId)]>>,
        <<"status", [op |-> "statusNe", value |-> "cancelled"]>>,
        <<"Op.or", [op |-> "timeRange", startTime |-> startTime,
                    endTime |-> endTime]>> >>)
  IN IF excludeMeetingId # 0
       THEN ("id" :> [op |-> "idNe", value |-> excludeMeetingId]) @@ whereClause
       ELSE whereClause

\* the ids of the meetings Meeting.findAll({ where: whereClause }) returns
checkTimeConflicts_None(ms, rows, userId, startTime, endTime, excludeMeetingId) == {}

checkTimeConflicts(ms, rows, userId, startTime, endTime, excludeMeetingId) ==
  LET whereClause ==
        conflictWhereClause(rows, userId, startTime, endTime, excludeMeetingId)
  IN {id \in DOMAIN ms :
        \A k \in DOMAIN whereClause : Satisfies(ms[id], id, whereClause[k])}

titlesOf(ms, ids) == {ms[id].title : id \in ids}

----------------------------------------------------------------------------
(* The participants table (models/MeetingParticipant.ts) *)

\* the foreign key user_id -> users.id and the unique index (meeting_id, user_id)
StoreAccepts(rows, new) ==
  /\ new.userId \in Users
  /\ ~ \E r \in rows : r.meetingId = new.meetingId /\ r.userId = new.userId

\* the loop of addParticipants: skip an entry that has a row, create the others;
\* a create the store refuses throws and leaves the rows created so far
RECURSIVE AddLoop(_, _, _)
AddLoop(rows, meetingId, entries) ==
  IF entries = <<>> THEN [rows |-> rows, error |-> OK]
  ELSE
    LET p == Head(entries)
        existing == {r \in rows :
                       /\ r.meetingId = meetingId
                       /\ IF p.userId # 0 THEN r.userId = p.userId
                                          ELSE r.email = p.email}
        new == [meetingId |-> meetingId, userId |-> p.userId, email |-> p.email,
                role |-> IF p.role # "" THEN p.role ELSE "attendee",
                status |-> "invited"]
    IN IF existing # {} THEN AddLoop(rows, meetingId, Tail(entries))
       ELSE IF ~ StoreAccepts(rows, new) THEN [rows |-> rows, error |-> ErrStore]
       ELSE AddLoop(rows \cup {new}, meetingId, Tail(entries))

----------------------------------------------------------------------------
(* The record of the last call *)

\* no meeting / no join info in a result
NoMeeting == [id |-> 0]
NoJoinInfo == [meetingId |-> 0]

NoCall ==
  [op |-> "none", userId |-> 0, meetingId |-> 0, fields |-> {},
   startTime |-> 0, endTime |-> 0, password |-> Null,
   code |-> 0, error |-> OK, conflicts |-> {}, canJoin |-> FALSE,
   meeting |-> NoMeeting, joinInfo |-> NoJoinInfo,
   duration |-> 0, timeSlots |-> <<>>, entries |-> <<>>,
   filters |-> <<>>, list |-> <<>>, participants |-> {}]

\* the call (op, its arguments) returned code / error
Returned(op, userId, meetingId, fields, startTime, endTime, code, error, conflicts) ==
  [NoCall EXCEPT !.op = op, !.userId = userId, !.meetingId = meetingId,
                 !.fields = fields, !.startTime = startTime, !.endTime = endTime,
                 !.code = code, !.error = error, !.conflicts = conflicts]

----------------------------------------------------------------------------
(* The calls in flight *)

RequestIds == 1..MaxRequests

\* a call that has not started: its position pc, its arguments (userId, data,
\* meetingId, entries: the participants still to add), what it has read
\* (meeting: the row findByPk returned, rows: the participant rows, seen: the
\* number of meetings the conflict query looked at) and its outcome
NoRequest ==
  [op |-> "none", pc |-> "idle", userId |-> 0, data |-> [title |-> ""],
   meetingId |-> 0, entries |-> <<>>, meeting |-> NoMeeting, rows |-> {},
   seen |-> 0, code |-> 0, error |-> OK]

----------------------------------------------------------------------------
Init ==
  /\ now = 0
  /\ meetings = <<>>
  /\ participants = {}
  /\ call = NoCall
  /\ requests = [r \in RequestIds |-> NoRequest]
  /\ store = <<>>
  /\ responses = <<>>

\* time passes between two calls
Tick ==
  /\ now < MaxClock * TimeStep
  /\ now' = now + TimeStep
  /\ call' = [NoCall EXCEPT !.op = "tick"]
  /\ UNCHANGED <<meetings, participants, requests, store, responses>>

\* CalendarService.createMeeting(organizerId, meetingData); generated is the
\* password generateMeetingPassword(8) returns when it is called
CreateMeeting(organizerId, data, generated) ==
  LET timesError == validateMeetingTimes(data.startTime, data.endTime, now)
      conflicts == checkTimeConflicts(meetings, participants, organizerId,
                                      data.startTime, data.endTime, 0)
      wantsPassword == IF data.generatePassword THEN TRUE ELSE data.customPassword # Null
      meetingPassword == IF ~ wantsPassword THEN Null
                         ELSE IF data.customPassword # Null THEN data.customPassword
                         ELSE generated
      id == Len(meetings) + 1
      meeting == [title |-> data.title,
                  startTime |-> data.startTime,
                  endTime |-> data.endTime,
                  status |-> data.status,
                  organizerId |-> organizerId,
                  meetingPassword |-> meetingPassword,
                  isPasswordProtected |-> wantsPassword,
                  allowGuestAccess |-> data.allowGuestAccess]
      organizerRow == [meetingId |-> id, userId |-> organizerId, email |-> NoEmail,
                       role |-> "organizer", status |-> "accepted"]
      added == AddLoop(participants \cup {organizerRow}, id, data.participants)
      given == {"startTime", "endTime"}
                 \cup (IF data.generatePassword THEN {"generatePassword"} ELSE {})
                 \cup (IF data.customPassword # Null THEN {"customPassword"} ELSE {})
      returned(mid, code, error, titles) ==
        call' = [Returned("createMeeting", organizerId, mid, given,
                          data.startTime, data.endTime, code, error, titles)
                   EXCEPT !.entries = data.participants]
      rejected(code, error, titles) ==
        /\ returned(0, code, error, titles)
        /\ UNCHANGED <<meetings, participants>>
  IN
  /\ UNCHANGED <<now, requests, store, responses>>
  /\ IF timesError # OK THEN rejected(400, timesError, {})
     ELSE IF conflicts # {} THEN rejected(400, ErrConflict, titlesOf(meetings, conflicts))
     ELSE IF data.customAgoraChannelNameLen > 100 THEN rejected(400, ErrChannelTooLong, {})
     ELSE IF data.customPassword # Null /\ ~ validateMeetingPassword(data.customPassword)
       THEN rejected(400, ErrInvalidPassword, {})
     ELSE
       /\ meetings' = Append(meetings, meeting)
       /\ participants' = added.rows
       /\ IF added.error = OK THEN returned(id, 201, OK, {})
                              ELSE returned(id, 500, added.error, {})

\* CalendarService.updateMeeting(meetingId, userId, updateData)
UpdateMeeting(meetingId, userId, updateData) ==
  LET meeting == meetings[meetingId]
      fields == DOMAIN updateData
      timesGiven == IF "startTime" \in fields THEN TRUE ELSE "endTime" \in fields
      startTime == IF "startTime" \in fields THEN updateData.startTime
                                             ELSE meeting.startTime
      endTime == IF "endTime" \in fields THEN updateData.endTime ELSE meeting.endTime
      timesError == validateMeetingTimes(startTime, endTime, now)
      conflicts == checkTimeConflicts(meetings, participants, userId,
                                      startTime, endTime, meetingId)
      storeRefuses == /\ "meetingPassword" \in fields
                      /\ ~ (Len(updateData.meetingPassword) \in 4..50)
      returned(s, e, code, error, titles) ==
        call' = Returned("updateMeeting", userId, meetingId, fields, s, e,
                         code, error, titles)
      rejected(s, e, code, error, titles) ==
        /\ returned(s, e, code, error, titles)
        /\ UNCHANGED meetings
  IN
  /\ UNCHANGED <<now, participants, requests, store, responses>>
  /\ IF meetingId \notin DOMAIN meetings THEN rejected(0, 0, 404, ErrNotFound, {})
     ELSE IF ~ isOrganizer(meeting, userId)
       THEN rejected(0, 0, 403, ErrNotOrganizerUpdate, {})
     ELSE IF ~ canBeModified(meeting, now)
       THEN rejected(0, 0, 400, ErrNotModifiable, {})
     ELSE IF timesGiven /\ timesError # OK
       THEN rejected(startTime, endTime, 400, timesError, {})
     ELSE IF timesGiven /\ conflicts # {}
       THEN rejected(startTime, endTime, 400, ErrConflict, titlesOf(meetings, conflicts))
     ELSE IF storeRefuses THEN rejected(startTime, endTime, 500, ErrStore, {})
     ELSE
       /\ meetings' = [meetings EXCEPT ![meetingId] = Merge(updateData, meeting)]
       /\ returned(startTime, endTime, 200, OK, {})

\* CalendarService.cancelMeeting(meetingId, userId)
CancelMeeting(meetingId, userId) ==
  LET meeting == meetings[meetingId]
      returned(code, error) ==
        call' = Returned("cancelMeeting", userId, meetingId, {}, 0, 0, code, error, {})
      rejected(code, error) ==
        /\ returned(code, error)
        /\ UNCHANGED meetings
  IN
  /\ UNCHANGED <<now, participants, requests, store, responses>>
  /\ IF meetingId \notin DOMAIN meetings THEN rejected(404, ErrNotFound)
     ELSE IF ~ isOrganizer(meeting, userId) THEN rejected(403, ErrNotOrganizerCancel)
     ELSE IF isCancelled(meeting) THEN rejected(400, ErrAlreadyCancelled)
     ELSE
       /\ meetings' = [meetings EXCEPT ![meetingId] =
                         Merge([status |-> "cancelled"], meeting)]
       /\ returned(200, OK)

\* CalendarService.addParticipants(meetingId, participants)
AddParticipants(meetingId, entries) ==
  LET added == AddLoop(participants, meetingId, entries)
      returned(code, error) ==
        call' = [Returned("addParticipants", 0, meetingId, {}, 0, 0, code, error, {})
                   EXCEPT !.entries = entries]
  IN
  /\ UNCHANGED <<now, meetings, requests, store, responses>>
  /\ IF meetingId \notin DOMAIN meetings
       THEN /\ returned(404, ErrNotFound)
            /\ UNCHANGED participants
       ELSE /\ participants' = added.rows
            /\ IF added.error = OK THEN returned(200, OK) ELSE returned(500, added.error)

\* CalendarService.updateParticipantResponse(meetingId, userId, status)
UpdateParticipantResponse(meetingId, userId, status) ==
  LET found == {r \in participants : r.meetingId = meetingId /\ r.userId = userId}
      returned(code, error) ==
        call' = Returned("updateParticipantResponse", userId, meetingId, {}, 0, 0,
                         code, error, {})
  IN
  /\ UNCHANGED <<now, meetings, requests, store, responses>>
  /\ IF found = {}
       THEN /\ returned(404, ErrParticipantNotFound)
            /\ UNCHANGED participants
       ELSE /\ participants' =
                 (participants \ found) \cup {[r EXCEPT !.status = status] : r \in found}
            /\ returned(200, OK)

\* CalendarService.updateMeetingPassword(meetingId, organizerId, newPassword, removePassword)
UpdateMeetingPassword(meetingId, organizerId, newPassword, removePassword, generated) ==
  LET meeting == meetings[meetingId]
      returned(code, error) ==
        call' = [Returned("updateMeetingPassword", organizerId, meetingId,
                          IF removePassword THEN {"removePassword"} ELSE {}, 0, 0,
                          code, error, {}) EXCEPT !.password = newPassword]
      rejected(code, error) ==
        /\ returned(code, error)
        /\ UNCHANGED meetings
      updated(values) ==
        /\ meetings' = [meetings EXCEPT ![meetingId] = Merge(values, meeting)]
        /\ returned(200, OK)
  IN
  /\ UNCHANGED <<now, participants, requests, store, responses>>
  /\ IF meetingId \notin DOMAIN meetings THEN rejected(404, ErrNotFound)
     ELSE IF ~ isOrganizer(meeting, organizerId) THEN rejected(403, ErrNotOrganizerPassword)
     ELSE IF removePassword
       THEN updated([meetingPassword |-> Null, isPasswordProtected |-> FALSE])
     ELSE IF newPassword # Null
       THEN IF ~ validateMeetingPassword(newPassword)
              THEN rejected(400, ErrInvalidPassword)
              ELSE updated([meetingPassword |-> newPassword, isPasswordProtected |-> TRUE])
     ELSE updated([meetingPassword |-> generated, isPasswordProtected |-> TRUE])

\* isParticipant taking every identified caller for a participant
isParticipant_AnyUser(rows, meetingId, userId) == userId # 0

\* the participant lookup of validateMeetingAccess: made only for a truthy userId
isParticipant(rows, meetingId, userId) ==
  /\ userId # 0
  /\ \E r \in rows : r.meetingId = meetingId /\ r.userId = userId

\* Meeting.getJoinInfo(); the channel name and the provider app id, which no
\* operation of the model reads, are left out
getJoinInfo(m, id) ==
  [meetingId |-> id,
   requiresPassword |-> requiresPassword(m),
   allowGuestAccess |-> m.allowGuestAccess]

\* the value validateMeetingAccess returns: { canJoin, meeting, joinInfo, error };
\* `meeting` is the row itself, with its id
validateMeetingAccess(ms, rows, meetingId, password, userId) ==
  LET meeting == ms[meetingId]
      answer(canJoin, error) ==
        [canJoin |-> canJoin, error |-> error,
         meeting |-> IF canJoin THEN [id |-> meetingId] @@ meeting ELSE NoMeeting,
         joinInfo |-> IF canJoin THEN getJoinInfo(meeting, meetingId) ELSE NoJoinInfo]
  IN IF meetingId \notin DOMAIN ms THEN answer(FALSE, ErrNotFound)
     ELSE IF meeting.status = "cancelled" THEN answer(FALSE, ErrAccessCancelled)
     ELSE IF meeting.status = "completed" THEN answer(FALSE, ErrAccessEnded)
     ELSE IF requiresPassword(meeting) /\ password = Null
       THEN answer(FALSE, ErrPasswordRequired)
     ELSE IF requiresPassword(meeting) /\ ~ validatePassword(meeting, password)
       THEN answer(FALSE, ErrPasswordInvalid)
     ELSE IF ~ isParticipant(rows, meetingId, userId) /\ ~ meeting.allowGuestAccess
       THEN answer(FALSE, ErrGuestNotAllowed)
     ELSE answer(TRUE, OK)

\* the body of the 200 response of the validate-access endpoint
accessResponse(result) ==
  [canJoin |-> TRUE,
   joinInfo |-> result.joinInfo,
   meeting |-> [f \in {"id", "title", "startTime", "endTime", "status"}
                  |-> result.meeting[f]]]

\* CalendarService.validateMeetingAccess(meetingId, password, userId); userId 0
\* is a caller without identity
ValidateMeetingAccess(meetingId, password, userId) ==
  LET result == validateMeetingAccess(meetings, participants, meetingId, password, userId)
  IN
  /\ UNCHANGED <<now, meetings, participants, requests, store, responses>>
  /\ call' = [NoCall EXCEPT !.op = "validateMeetingAccess", !.userId = userId,
                            !.meetingId = meetingId, !.password = password,
                            !.code = IF result.canJoin THEN 200 ELSE 403,
                            !.error = result.error, !.canJoin = result.canJoin,
                            !.meeting = result.meeting, !.joinInfo = result.joinInfo]

----------------------------------------------------------------------------
(* getMeetings and getAvailableTimeSlots *)

\* the associations index.ts declares between the models, each under an alias
Associations ==
  {[source |-> "User", target |-> "Meeting", as |-> "organizedMeetings"],
   [source |-> "Meeting", target |-> "User", as |-> "organizer"],
   [source |-> "Meeting", target |-> "MeetingParticipant", as |-> "participants"],
   [source |-> "MeetingParticipant", target |-> "Meeting", as |-> "meeting"],
   [source |-> "User", target |-> "MeetingParticipant", as |-> "participations"],
   [source |-> "MeetingParticipant", target |-> "User", as |-> "user"]}

\* an include that names no alias
NoAlias == ""

\* source.findAll({ include: [{ model: target, as: alias }] }) finds its
\* association: one from source to target declared under that very alias (an
\* include without `as` only matches an association declared without one)
includeResolves(source, target, alias) ==
  \E a \in Associations : a.source = source /\ a.target = target /\ a.as = alias

ErrEagerLoading ==
  "Meeting is associated to MeetingParticipant using an alias. You must use the 'as' keyword to specify the alias within your include statement."

\* the where clause getMeetings builds from its filters (meetingType is not
\* modelled); a filter is given when its field is present
whereMatches(m, filters) ==
  /\ "startDate" \in DOMAIN filters => m.startTime >= filters.startDate
  /\ "endDate" \in DOMAIN filters => m.startTime <= filters.endDate
  /\ "status" \in DOMAIN filters => m.status = filters.status
  /\ "organizerId" \in DOMAIN filters => m.organizerId = filters.organizerId

\* the ids of `ids` in ascending order
RECURSIVE Ascending(_)
Ascending(ids) ==
  IF ids = {} THEN <<>>
  ELSE LET least == CHOOSE i \in ids : \A j \in ids : i <= j
       IN <<least>> \o Ascending(ids \ {least})

\* allMeetings.filter((meeting, index, self) => index === self.findIndex(...))
RECURSIVE Deduplicate(_)
Deduplicate(seq) ==
  IF seq = <<>> THEN <<>>
  ELSE LET front == Deduplicate(SubSeq(seq, 1, Len(seq) - 1))
           last == seq[Len(seq)]
       IN IF \E i \in DOMAIN front : front[i] = last THEN front
          ELSE Append(front, last)

\* meetings.sort((a, b) => a.startTime - b.startTime): a stable sort
RECURSIVE SortByStartTime(_, _)
SortByStartTime(ms, seq) ==
  IF seq = <<>> THEN <<>>
  ELSE LET sorted == SortByStartTime(ms, SubSeq(seq, 1, Len(seq) - 1))
           last == seq[Len(seq)]
           before == SelectSeq(sorted, LAMBDA i : ms[i].startTime <= ms[last].startTime)
           after == SelectSeq(sorted, LAMBDA i : ms[i].startTime > ms[last].startTime)
       IN before \o <<last>> \o after

\* what getMeetings computes once its participant query is answered: the ids of
\* the meetings, in the order returned
meetingsFound(ms, rows, userId, filters) ==
  LET joined(u) == {id \in DOMAIN ms :
                      /\ \E r \in rows : r.meetingId = id /\ r.userId = u
                      /\ whereMatches(ms[id], filters)}
      organizerMeetings ==
        {id \in DOMAIN ms :
           /\ whereMatches(ms[id], [f \in DOMAIN filters \ {"organizerId"} |-> filters[f]])
           /\ ms[id].organizerId = userId}
  IN IF "participantId" \in DOMAIN filters
       THEN SortByStartTime(ms, Ascending(joined(filters.participantId)))
       ELSE SortByStartTime(ms,
              Deduplicate(Ascending(organizerMeetings) \o Ascending(joined(userId))))

\* CalendarService.getMeetings(userId, filters): both branches run
\* MeetingParticipant.findAll({ include: [{ model: Meeting, ... }] })
getMeetings(ms, rows, userId, filters) ==
  IF includeResolves("MeetingParticipant", "Meeting", NoAlias)
    THEN [error |-> OK, meetings |-> meetingsFound(ms, rows, userId, filters)]
    ELSE [error |-> ErrEagerLoading, meetings |-> <<>>]

HourMs == 60 * 60 * 1000
DayMs == 24 * HourMs
\* the increment of the sliding window
SlotStep == 30 * 60 * 1000

\* new Date(date) followed by setHours(hours, 0, 0, 0)
setHours(date, hours) == (date - (date % DayMs)) + hours * HourMs

\* the while loop of getAvailableTimeSlots, from currentTime on
RECURSIVE slotLoop(_, _, _, _, _)
slotLoop(ms, existingMeetings, currentTime, slotDuration, endOfDay) ==
  IF currentTime + slotDuration <= endOfDay
    THEN LET slotEnd == currentTime + slotDuration
             conflictingMeetings ==
               SelectSeq(existingMeetings,
                         LAMBDA id : currentTime < ms[id].endTime
                                       /\ slotEnd > ms[id].startTime)
         IN <<[start |-> currentTime, end |-> slotEnd,
               available |-> (Len(conflictingMeetings) = 0),
               conflictingMeetings |-> conflictingMeetings]>>
              \o slotLoop(ms, existingMeetings, currentTime + SlotStep,
                          slotDuration, endOfDay)
    ELSE <<>>

\* the value of CalendarService.getAvailableTimeSlots(userId, date, duration,
\* workingHours), duration in minutes
getAvailableTimeSlots(ms, rows, userId, date, duration, workingHours) ==
  LET startOfDay == setHours(date, workingHours.start)
      endOfDay == setHours(date, workingHours.end)
      existingMeetings ==
        getMeetings(ms, rows, userId, [startDate |-> startOfDay, endDate |-> endOfDay])
      slotDuration == duration * 60 * 1000
  IN IF existingMeetings.error # OK
       THEN [error |-> existingMeetings.error, timeSlots |-> <<>>]
       ELSE [error |-> OK,
             timeSlots |-> slotLoop(ms, existingMeetings.meetings, startOfDay,
                                    slotDuration, endOfDay)]

\* CalendarService.getAvailableTimeSlots called by userId
GetAvailableTimeSlots(userId, date, duration, workingHours) ==
  LET result == getAvailableTimeSlots(meetings, participants, userId, date,
                                      duration, workingHours)
  IN
  /\ UNCHANGED <<now, meetings, participants, requests, store, responses>>
  /\ call' = [NoCall EXCEPT !.op = "getAvailableTimeSlots", !.userId = userId,
                            !.startTime = setHours(date, workingHours.start),
                            !.endTime = setHours(date, workingHours.end),
                            !.duration = duration,
                            !.code = IF result.error = OK THEN 200 ELSE 500,
                            !.error = result.error,
                            !.timeSlots = result.timeSlots]

\* CalendarService.getMeetings called by userId, as the controller calls it
\* with the filters parsed from the query string
GetMeetings(userId, filters) ==
  LET result == getMeetings(meetings, participants, userId, filters)
  IN
  /\ UNCHANGED <<now, meetings, participants, requests, store, responses>>
  /\ call' = [NoCall EXCEPT !.op = "getMeetings", !.userId = userId,
                            !.filters = filters,
                            !.code = IF result.error = OK THEN 200 ELSE 500,
                            !.error = result.error,
                            !.list = result.meetings]

ErrAccessDenied == "Access denied"

\* meeting.organizerId === userId || userParticipation
hasAccess(ms, rows, meetingId, userId) ==
  \/ ms[meetingId].organizerId = userId
  \/ \E p \in rows : p.meetingId = meetingId /\ p.userId = userId

\* the value of CalendarService.getMeetingDetails(meetingId, userId)
getMeetingDetails(ms, rows, meetingId, userId) ==
  IF meetingId \notin DOMAIN ms
    THEN [code |-> 404, error |-> ErrNotFound, meeting |-> NoMeeting, participants |-> {}]
  ELSE IF ~ hasAccess(ms, rows, meetingId, userId)
    THEN [code |-> 403, error |-> ErrAccessDenied, meeting |-> NoMeeting,
          participants |-> {}]
  ELSE [code |-> 200, error |-> OK, meeting |-> ms[meetingId],
        participants |-> {p \in rows : p.meetingId = meetingId}]

\* CalendarService.getMeetingDetails called by userId
GetMeetingDetails(meetingId, userId) ==
  LET details == getMeetingDetails(meetings, participants, meetingId, userId)
  IN
  /\ UNCHANGED <<now, meetings, participants, requests, store, responses>>
  /\ call' = [NoCall EXCEPT !.op = "getMeetingDetails", !.userId = userId,
                            !.meetingId = meetingId,
                            !.code = details.code, !.error = details.error,
                            !.meeting = details.meeting,
                            !.participants = details.participants]

----------------------------------------------------------------------------
(* Inputs shared by the specifications *)

Step(n) == n * TimeStep

\* a registered user named by id, as an entry of a participants list
UserEntry(u) == [userId |-> u, email |-> NoEmail, role |-> ""]

\* someone who is no registered user, named by e-mail address
GuestEntry(email) == [userId |-> 0, email |-> email, role |-> ""]

PasswordA == <<"S", "e", "c", "r", "e", "t", "1">>
PasswordB == <<"w", "r", "o", "n", "g">>
Generated == <<"A", "b", "2", "3", "C", "d", "4", "5">>

\* the store stays within maxMeetings rows and maxInvited invited participants
Within(maxMeetings, maxInvited) ==
  /\ Len(meetings') <= maxMeetings
  /\ Cardinality(participants') <= Len(meetings') + maxInvited

----------------------------------------------------------------------------
(* Spec: scheduling. Meetings of every time range at a fixed clock. *)

SchedCreateData ==
  {[title |-> "Standup", startTime |-> Step(s), endTime |-> Step(s + d),
    status |-> "scheduled", allowGuestAccess |-> TRUE, generatePassword |-> FALSE,
    customPassword |-> Null, customAgoraChannelNameLen |-> 0, participants |-> <<>>]
     : s \in 0..MaxTime, d \in 0..3}

SchedUpdateData ==
  {[startTime |-> Step(s)] : s \in 0..MaxTime}
    \cup {[endTime |-> Step(e)] : e \in 0..MaxTime}
    \cup {[startTime |-> Step(s), endTime |-> Step(s + d)] : s \in 1..MaxTime, d \in 1..2}

Next ==
  \/ \E o \in Users, d \in SchedCreateData :
       CreateMeeting(o, d, Generated) /\ Within(MaxMeetings, MaxInvited)
  \/ \E id \in 1..MaxMeetings, u \in Users, d \in SchedUpdateData : UpdateMeeting(id, u, d)
  \/ \E id \in 1..MaxMeetings, u \in Users :
       AddParticipants(id, <<UserEntry(u)>>) /\ Within(MaxMeetings, MaxInvited)
  \/ \E id \in 1..MaxMeetings, u \in Users : UpdateParticipantResponse(id, u, "accepted")

Spec == Init /\ [][Next]_vars

----------------------------------------------------------------------------
(* SpecLifecycle: the life of a meeting while the clock advances. *)

LifeCreateData ==
  {[title |-> "Standup", startTime |-> Step(s), endTime |-> Step(s + 1),
    status |-> "scheduled", allowGuestAccess |-> TRUE, generatePassword |-> FALSE,
    customPassword |-> Null, customAgoraChannelNameLen |-> 0, participants |-> <<>>]
     : s \in 1..2}

LifeUpdateData ==
  {[title |-> "Review"], [startTime |-> Step(2)], [endTime |-> Step(4)]}

LifeIds == 1..(MaxLifeMeetings + 1)

NextLifecycle ==
  \/ Tick
  \/ \E o \in Users, d \in LifeCreateData :
       CreateMeeting(o, d, Generated) /\ Within(MaxLifeMeetings, MaxInvited)
  \/ \E id \in LifeIds, u \in Users, d \in LifeUpdateData : UpdateMeeting(id, u, d)
  \/ \E id \in LifeIds, u \in Users : CancelMeeting(id, u)
  \/ \E id \in LifeIds, u \in Users :
       AddParticipants(id, <<UserEntry(u)>>) /\ Within(MaxLifeMeetings, MaxInvited)
  \/ \E id \in LifeIds, u \in Users, s \in {"accepted", "declined"} :
       UpdateParticipantResponse(id, u, s)
  \/ \E id \in LifeIds, u \in Users, remove \in BOOLEAN :
       UpdateMeetingPassword(id, u, IF remove THEN Null ELSE PasswordA, remove, Generated)

SpecLifecycle == Init /\ [][NextLifecycle]_vars

----------------------------------------------------------------------------
(* SpecAccess: the access gate over meetings of every status and protection. *)

AccessCreateData ==
  {[title |-> "Standup", startTime |-> Step(1), endTime |-> Step(2),
    status |-> st, allowGuestAccess |-> g, generatePassword |-> FALSE,
    customPassword |-> pw, customAgoraChannelNameLen |-> 0, participants |-> <<>>]
     : st \in MeetingStatus, g \in BOOLEAN, pw \in {Null, PasswordA}}

AccessUpdateData ==
  {[isPasswordProtected |-> TRUE], [meetingPassword |-> PasswordA],
   [allowGuestAccess |-> FALSE]}

AccessIds == 1..(MaxAccessMeetings + 1)

NextAccess ==
  \/ \E o \in Users, d \in AccessCreateData :
       CreateMeeting(o, d, Generated) /\ Within(MaxAccessMeetings, MaxInvited)
  \/ \E id \in AccessIds, u \in Users, d \in AccessUpdateData : UpdateMeeting(id, u, d)
  \/ \E id \in AccessIds, u \in Users : CancelMeeting(id, u)
  \/ \E id \in AccessIds, u \in Users :
       AddParticipants(id, <<UserEntry(u)>>) /\ Within(MaxAccessMeetings, MaxInvited)
  \/ \E id \in AccessIds, u \in Users :
       UpdateMeetingPassword(id, u, Null, TRUE, Generated)
  \/ \E id \in AccessIds, pw \in {Null, PasswordA, PasswordB}, u \in 0..NumUsers :
       ValidateMeetingAccess(id, pw, u)

SpecAccess == Init /\ [][NextAccess]_vars

----------------------------------------------------------------------------
(* SpecSlots: availability of one day (day 0, the clock at its midnight).   *)

\* hh:mm of day 0
At(hh, mm) == hh * HourMs + mm * 60 * 1000

SlotCreateData ==
  {[title |-> t[1], startTime |-> t[2], endTime |-> t[3],
    status |-> "scheduled", allowGuestAccess |-> TRUE, generatePassword |-> FALSE,
    customPassword |-> Null, customAgoraChannelNameLen |-> 0, participants |-> <<>>]
     : t \in {<<"Review", At(14, 0), At(15, 0)>>,
              <<"Breakfast", At(8, 30), At(9, 30)>>,
              <<"Planning", At(14, 30), At(16, 0)>>}}

\* the date asked for: a time of day within day 0
SlotDates == {At(10, 15)}

SlotDurations == {15, 60, 480, 540}

SlotWorkingHours == {[start |-> 9, end |-> 17], [start |-> 13, end |-> 16]}

SlotIds == 1..MaxSlotMeetings

NextSlots ==
  \/ \E o \in Users, d \in SlotCreateData :
       CreateMeeting(o, d, Generated) /\ Within(MaxSlotMeetings, MaxInvited)
  \/ \E id \in SlotIds, u \in Users : CancelMeeting(id, u)
  \/ \E id \in SlotIds, u \in Users :
       AddParticipants(id, <<UserEntry(u)>>) /\ Within(MaxSlotMeetings, MaxInvited)
  \/ \E id \in SlotIds, u \in Users, st \in {"accepted", "declined"} :
       UpdateParticipantResponse(id, u, st)
  \/ \E u \in Users, date \in SlotDates, duration \in SlotDurations,
        workingHours \in SlotWorkingHours :
       GetAvailableTimeSlots(u, date, duration, workingHours)

SpecSlots == Init /\ [][NextSlots]_vars

----------------------------------------------------------------------------
(* SpecPassword: meetings created with a generated password, whose password *)
(* the organizer then replaces or removes.                                  *)

PasswordCreateData ==
  {[title |-> "Standup", startTime |-> Step(1), endTime |-> Step(2),
    status |-> "scheduled", allowGuestAccess |-> g, generatePassword |-> TRUE,
    customPassword |-> Null, customAgoraChannelNameLen |-> 0, participants |-> <<>>]
     : g \in BOOLEAN}

\* values crypto.randomInt(0, charset.length) may return in the 8 rounds
RandomInts ==
  {[i \in 1..8 |-> 0], [i \in 1..8 |-> Len(charset) - 1],
   [i \in 1..8 |-> (7 * i) % Len(charset)]}

NextPassword ==
  \/ \E o \in Users, d \in PasswordCreateData, r \in RandomInts :
       CreateMeeting(o, d, generateMeetingPassword(8, r))
         /\ Within(MaxAccessMeetings, MaxInvited)
  \/ \E id \in AccessIds, u \in Users, r \in RandomInts :
       \/ UpdateMeetingPassword(id, u, Null, TRUE, generateMeetingPassword(8, r))
       \/ UpdateMeetingPassword(id, u, Null, FALSE, generateMeetingPassword(8, r))
       \/ UpdateMeetingPassword(id, u, PasswordA, FALSE, generateMeetingPassword(8, r))
  \/ \E id \in AccessIds, pw \in {Null, PasswordA}, u \in 0..NumUsers :
       ValidateMeetingAccess(id, pw, u)

SpecPassword == Init /\ [][NextPassword]_vars

----------------------------------------------------------------------------
(* SpecParticipants: participant lists of registered users, of guests named *)
(* by e-mail and of user ids that no user has.                              *)

\* an id no registered user has
UnknownUser == NumUsers + 1

ParticipantLists ==
  {<<UserEntry(1)>>, <<UserEntry(2)>>, <<UserEntry(2), UserEntry(2)>>,
   <<GuestEntry("p@example.com")>>,
   <<UserEntry(1), UserEntry(UnknownUser)>>,
   <<UserEntry(2), GuestEntry("q@example.com")>>,
   <<GuestEntry("p@example.com"), GuestEntry("q@example.com")>>}

PartCreateData ==
  {[title |-> "Standup", startTime |-> Step(1), endTime |-> Step(2),
    status |-> "scheduled", allowGuestAccess |-> TRUE, generatePassword |-> FALSE,
    customPassword |-> Null, customAgoraChannelNameLen |-> 0, participants |-> l]
     : l \in {<<>>} \cup ParticipantLists}

PartIds == 1..(MaxPartMeetings + 1)

NextParticipants ==
  \/ \E o \in Users, d \in PartCreateData :
       CreateMeeting(o, d, Generated) /\ Within(MaxPartMeetings, MaxInvited)
  \/ \E id \in PartIds, l \in ParticipantLists :
       AddParticipants(id, l) /\ Within(MaxPartMeetings, MaxInvited)
  \/ \E id \in PartIds, u \in Users, st \in {"accepted", "declined"} :
       UpdateParticipantResponse(id, u, st)
  \/ \E id \in PartIds, u \in Users : CancelMeeting(id, u)

SpecParticipants == Init /\ [][NextParticipants]_vars

----------------------------------------------------------------------------
(* Calls that overlap in time. The service holds no lock and opens no
   transaction, so a call gives way to the others at every await of a store
   query: each action below is one query of a call in flight, together with
   the synchronous code that follows it up to the next await. *)

\* call r goes on with `values` changed
Moved(r, values) == requests' = [requests EXCEPT ![r] = Merge(values, requests[r])]

\* call r ends
Ended(r, code, error) == Moved(r, [pc |-> "done", code |-> code, error |-> error])

\* createMeeting is called: the times are validated before the first await
BeginCreateMeeting(r, organizerId, data) ==
  LET timesError == validateMeetingTimes(data.startTime, data.endTime, now)
      started == [op |-> "createMeeting", userId |-> organizerId, data |-> data,
                  entries |-> data.participants]
  IN
  /\ requests[r].pc = "idle"
  /\ IF timesError # OK
       THEN Moved(r, started @@ [pc |-> "done", code |-> 400, error |-> timesError])
       ELSE Moved(r, started @@ [pc |-> "findAccepted"])
  /\ UNCHANGED <<now, meetings, participants, call, store, responses>>

\* checkTimeConflicts, first query: the caller's accepted participant rows
CreateFindAccepted(r) ==
  /\ requests[r].pc = "findAccepted"
  /\ requests[r].op = "createMeeting"
  /\ Moved(r, [pc |-> "findConflicts", rows |-> participants])
  /\ UNCHANGED <<now, meetings, participants, call, store, responses>>

\* the conflict check without the query: nothing is found
CreateFindConflicts_Blind(r) ==
  /\ requests[r].pc = "findConflicts"
  /\ requests[r].op = "createMeeting"
  /\ Moved(r, [pc |-> "createMeeting", rows |-> {}, seen |-> Len(meetings)])
  /\ UNCHANGED <<now, meetings, participants, call, store, responses>>

\* checkTimeConflicts, second query: Meeting.findAll({ where: whereClause });
\* then the conflict test and the channel name and password of the new meeting
CreateFindConflicts(r) ==
  LET req == requests[r]
      data == req.data
      conflicts == checkTimeConflicts(meetings, req.rows, req.userId,
                                      data.startTime, data.endTime, 0)
      read == [rows |-> {}, seen |-> Len(meetings)]
      thrown(error) == Moved(r, read @@ [pc |-> "done", code |-> 400, error |-> error])
  IN
  /\ req.pc = "findConflicts"
  /\ req.op = "createMeeting"
  /\ IF conflicts # {} THEN thrown(ErrConflict)
     ELSE IF data.customAgoraChannelNameLen > 100 THEN thrown(ErrChannelTooLong)
     ELSE IF data.customPassword # Null /\ ~ validateMeetingPassword(data.customPassword)
       THEN thrown(ErrInvalidPassword)
     ELSE Moved(r, read @@ [pc |-> "createMeeting"])
  /\ UNCHANGED <<now, meetings, participants, call, store, responses>>

\* Meeting.create
CreateMeetingRow(r, generated) ==
  LET req == requests[r]
      data == req.data
      wantsPassword == IF data.generatePassword THEN TRUE ELSE data.customPassword # Null
      meetingPassword == IF ~ wantsPassword THEN Null
                         ELSE IF data.customPassword # Null THEN data.customPassword
                         ELSE generated
      meeting == [title |-> data.title,
                  startTime |-> data.startTime,
                  endTime |-> data.endTime,
                  status |-> data.status,
                  organizerId |-> req.userId,
                  meetingPassword |-> meetingPassword,
                  isPasswordProtected |-> wantsPassword,
                  allowGuestAccess |-> data.allowGuestAccess]
  IN
  /\ req.pc = "createMeeting"
  /\ meetings' = Append(meetings, meeting)
  /\ Moved(r, [pc |-> "createOrganizer", meetingId |-> Len(meetings) + 1])
  /\ UNCHANGED <<now, participants, call, store, responses>>

\* MeetingParticipant.create of the organizer's row; then addParticipants is
\* called when the list is not empty
CreateOrganizerRow(r) ==
  LET req == requests[r]
      organizerRow == [meetingId |-> req.meetingId, userId |-> req.userId,
                       email |-> NoEmail, role |-> "organizer", status |-> "accepted"]
  IN
  /\ req.pc = "createOrganizer"
  /\ IF ~ StoreAccepts(participants, organizerRow)
       THEN /\ Ended(r, 500, ErrStore)
            /\ UNCHANGED participants
       ELSE /\ participants' = participants \cup {organizerRow}
            /\ IF req.entries = <<>> THEN Ended(r, 201, OK)
                                     ELSE Moved(r, [pc |-> "findMeeting"])
  /\ UNCHANGED <<now, meetings, call, store, responses>>

\* addParticipants is called
BeginAddParticipants(r, meetingId, entries) ==
  /\ requests[r].pc = "idle"
  /\ Moved(r, [op |-> "addParticipants", pc |-> "findMeeting",
               meetingId |-> meetingId, entries |-> entries])
  /\ UNCHANGED <<now, meetings, participants, call, store, responses>>

\* what the call answers when its loop is over
Completed(r) == IF requests[r].op = "createMeeting" THEN 201 ELSE 200

\* Meeting.findByPk
AddFindMeeting(r) ==
  LET req == requests[r] IN
  /\ req.pc = "findMeeting"
  /\ req.op \in {"createMeeting", "addParticipants"}
  /\ IF req.meetingId \notin DOMAIN meetings THEN Ended(r, 404, ErrNotFound)
     ELSE IF req.entries = <<>> THEN Ended(r, Completed(r), OK)
     ELSE Moved(r, [pc |-> "findOne"])
  /\ UNCHANGED <<now, meetings, participants, call, store, responses>>

\* the rows MeetingParticipant.findOne looks for: by user id, else by e-mail
existingParticipant(rows, meetingId, p) ==
  {row \in rows : /\ row.meetingId = meetingId
                  /\ IF p.userId # 0 THEN row.userId = p.userId
                                     ELSE row.email = p.email}

\* the row MeetingParticipant.create is given for entry p
newParticipant(meetingId, p) ==
  [meetingId |-> meetingId, userId |-> p.userId, email |-> p.email,
   role |-> IF p.role # "" THEN p.role ELSE "attendee", status |-> "invited"]

\* call r is through with the first of its entries
NextEntry(r) ==
  IF Tail(requests[r].entries) = <<>>
    THEN Moved(r, [pc |-> "done", code |-> Completed(r), error |-> OK, entries |-> <<>>])
    ELSE Moved(r, [pc |-> "findOne", entries |-> Tail(requests[r].entries)])

\* MeetingParticipant.findOne for the next entry of the list
AddFindOne(r) ==
  LET req == requests[r] IN
  /\ req.pc = "findOne"
  /\ IF existingParticipant(participants, req.meetingId, Head(req.entries)) # {}
       THEN NextEntry(r)
       ELSE Moved(r, [pc |-> "create"])
  /\ UNCHANGED <<now, meetings, participants, call, store, responses>>

\* MeetingParticipant.create for the entry findOne did not find
AddCreate(r) ==
  LET req == requests[r]
      new == newParticipant(req.meetingId, Head(req.entries))
  IN
  /\ req.pc = "create"
  /\ IF ~ StoreAccepts(participants, new)
       THEN /\ Ended(r, 500, ErrStore)
            /\ UNCHANGED participants
       ELSE /\ participants' = participants \cup {new}
            /\ NextEntry(r)
  /\ UNCHANGED <<now, meetings, call, store, responses>>

----------------------------------------------------------------------------
(* SpecRace: calls of createMeeting and addParticipants that overlap in time,
   next to calls of createMeeting that run alone. *)

\* user 1 named twice: as the organizer's own entry when user 1 organizes, as
\* a repeated invitee otherwise
RaceLists == {<<UserEntry(1), UserEntry(1)>>}

RaceCreateData ==
  {[title |-> "Sync", startTime |-> Step(t[1]), endTime |-> Step(t[2]),
    status |-> "scheduled", allowGuestAccess |-> TRUE, generatePassword |-> FALSE,
    customPassword |-> Null, customAgoraChannelNameLen |-> 0, participants |-> ps]
     : t \in {<<1, 3>>, <<2, 4>>}, ps \in {<<>>} \cup RaceLists}

RaceIds == 1..MaxRaceMeetings

\* the meetings in the store and those the calls in flight are about to create
RaceMeetings ==
  Len(meetings) + Cardinality({r \in RequestIds :
                                 requests[r].pc \in {"findAccepted", "findConflicts",
                                                     "createMeeting"}})

NextRace ==
  \/ \E o \in Users, data \in RaceCreateData :
       /\ RaceMeetings < MaxRaceMeetings
       /\ CreateMeeting(o, data, Generated)
  \/ \E r \in RequestIds, o \in Users, data \in RaceCreateData :
       /\ RaceMeetings < MaxRaceMeetings
       /\ BeginCreateMeeting(r, o, data)
  \/ \E r \in RequestIds : CreateFindAccepted(r)
  \/ \E r \in RequestIds : CreateFindConflicts(r)
  \/ \E r \in RequestIds : CreateMeetingRow(r, Generated)
  \/ \E r \in RequestIds : CreateOrganizerRow(r)
  \/ \E r \in RequestIds, id \in RaceIds, entries \in RaceLists :
       BeginAddParticipants(r, id, entries)
  \/ \E r \in RequestIds : AddFindMeeting(r)
  \/ \E r \in RequestIds : AddFindOne(r)
  \/ \E r \in RequestIds : AddCreate(r)

SpecRace == Init /\ [][NextRace]_vars

----------------------------------------------------------------------------
(* SpecRaceUpdate: calls of updateMeeting that overlap in time, on meetings
   created by calls of createMeeting that run alone. *)

\* updateMeeting is called
BeginUpdateMeeting(r, meetingId, userId, updateData) ==
  /\ requests[r].pc = "idle"
  /\ Moved(r, [op |-> "updateMeeting", pc |-> "findMeeting", userId |-> userId,
               meetingId |-> meetingId, data |-> updateData])
  /\ UNCHANGED <<now, meetings, participants, call, store, responses>>

\* Meeting.findByPk; then the tests on the row it returned, up to the first
\* query of checkTimeConflicts or, when no time is given, to meeting.update
UpdateFindMeeting(r) ==
  LET req == requests[r]
      meeting == meetings[req.meetingId]
      fields == DOMAIN req.data
      timesGiven == IF "startTime" \in fields THEN TRUE ELSE "endTime" \in fields
      startTime == IF "startTime" \in fields THEN req.data.startTime
                                             ELSE meeting.startTime
      endTime == IF "endTime" \in fields THEN req.data.endTime ELSE meeting.endTime
      timesError == validateMeetingTimes(startTime, endTime, now)
  IN
  /\ req.pc = "findMeeting"
  /\ req.op = "updateMeeting"
  /\ IF req.meetingId \notin DOMAIN meetings THEN Ended(r, 404, ErrNotFound)
     ELSE IF ~ isOrganizer(meeting, req.userId) THEN Ended(r, 403, ErrNotOrganizerUpdate)
     ELSE IF ~ canBeModified(meeting, now) THEN Ended(r, 400, ErrNotModifiable)
     ELSE IF timesGiven /\ timesError # OK THEN Ended(r, 400, timesError)
     ELSE IF timesGiven
       THEN Moved(r, [pc |-> "findAccepted",
                      meeting |-> [id |-> req.meetingId] @@ meeting])
     ELSE Moved(r, [pc |-> "update", meeting |-> [id |-> req.meetingId] @@ meeting])
  /\ UNCHANGED <<now, meetings, participants, call, store, responses>>

\* checkTimeConflicts, first query: the caller's accepted participant rows
UpdateFindAccepted(r) ==
  /\ requests[r].pc = "findAccepted"
  /\ requests[r].op = "updateMeeting"
  /\ Moved(r, [pc |-> "findConflicts", rows |-> participants])
  /\ UNCHANGED <<now, meetings, participants, call, store, responses>>

\* checkTimeConflicts, second query, for the times resolved from the row read
UpdateFindConflicts(r) ==
  LET req == requests[r]
      fields == DOMAIN req.data
      startTime == IF "startTime" \in fields THEN req.data.startTime
                                             ELSE req.meeting.startTime
      endTime == IF "endTime" \in fields THEN req.data.endTime
                                         ELSE req.meeting.endTime
      conflicts == checkTimeConflicts(meetings, req.rows, req.userId,
                                      startTime, endTime, req.meetingId)
  IN
  /\ req.pc = "findConflicts"
  /\ req.op = "updateMeeting"
  /\ IF conflicts # {}
       THEN Moved(r, [pc |-> "done", code |-> 400, error |-> ErrConflict, rows |-> {}])
       ELSE Moved(r, [pc |-> "update", rows |-> {}])
  /\ UNCHANGED <<now, meetings, participants, call, store, responses>>

\* meeting.update(updateData): the fields given are validated on the row read
\* and written to the stored row
UpdateSave(r) ==
  LET req == requests[r]
      storeRefuses == /\ "meetingPassword" \in DOMAIN req.data
                      /\ ~ (Len(req.data.meetingPassword) \in 4..50)
  IN
  /\ req.pc = "update"
  /\ IF storeRefuses
       THEN /\ Ended(r, 500, ErrStore)
            /\ UNCHANGED meetings
       ELSE /\ meetings' = [meetings EXCEPT ![req.meetingId] =
                              Merge(req.data, meetings[req.meetingId])]
            /\ Ended(r, 200, OK)
  /\ UNCHANGED <<now, participants, call, store, responses>>

RaceUpdateCreateData ==
  {[title |-> "Sync", startTime |-> Step(1), endTime |-> Step(3),
    status |-> "scheduled", allowGuestAccess |-> TRUE, generatePassword |-> FALSE,
    customPassword |-> Null, customAgoraChannelNameLen |-> 0, participants |-> <<>>]}

RaceUpdateData ==
  {[startTime |-> Step(s)] : s \in 0..MaxTime}
    \cup {[endTime |-> Step(e)] : e \in 0..MaxTime}
    \cup {[startTime |-> Step(2), endTime |-> Step(b)] : b \in {2, 4}}
    \cup {[title |-> "Retro"]}

RaceUpdateIds == 1..MaxUpdateMeetings

NextRaceUpdate ==
  \/ \E o \in Users, data \in RaceUpdateCreateData :
       CreateMeeting(o, data, Generated) /\ Within(MaxUpdateMeetings, 0)
  \/ \E r \in RequestIds, id \in RaceUpdateIds, u \in Users, d \in RaceUpdateData :
       BeginUpdateMeeting(r, id, u, d)
  \/ \E r \in RequestIds : UpdateFindMeeting(r)
  \/ \E r \in RequestIds : UpdateFindAccepted(r)
  \/ \E r \in RequestIds : UpdateFindConflicts(r)
  \/ \E r \in RequestIds : UpdateSave(r)

SpecRaceUpdate == Init /\ [][NextRaceUpdate]_vars

----------------------------------------------------------------------------
(* The calendar router (routes/calendar.ts) behind middleware/auth.ts *)

ErrTokenRequired == "Access token is required"
ErrInvalidToken == "Invalid token"
ErrUserNotFound == "User not found"

\* the Authorization header: absent, or "Bearer <token>" where the token names
\* a user and carries a signature that verifies or does not
NoAuthorization == [scheme |-> "", userId |-> 0, signed |-> FALSE]
Bearer(u, signed) == [scheme |-> "Bearer", userId |-> u, signed |-> signed]

\* authenticate: code 0 stands for next(), with req.user set to the user found
authenticate(header) ==
  IF header.scheme # "Bearer"
    THEN [code |-> 401, error |-> ErrTokenRequired, userId |-> 0]
  ELSE IF ~ header.signed THEN [code |-> 401, error |-> ErrInvalidToken, userId |-> 0]
  ELSE IF header.userId \notin Users
    THEN [code |-> 401, error |-> ErrUserNotFound, userId |-> 0]
  ELSE [code |-> 0, error |-> OK, userId |-> header.userId]

\* the headers of a request, as recorded with the call
headersOf(header) == IF header.scheme = "" THEN {} ELSE {"authorization"}

\* router.use(authenticate) turned the request away
Unauthorized(op, header, meetingId, password, auth) ==
  /\ call' = [Returned(op, 0, meetingId, headersOf(header), 0, 0,
                       auth.code, auth.error, {}) EXCEPT !.password = password]
  /\ UNCHANGED <<now, meetings, participants, requests, store, responses>>

\* POST /api/calendar/meetings
PostMeetings(header, data) ==
  LET auth == authenticate(header) IN
  IF auth.code # 0 THEN Unauthorized("POST /meetings", header, 0, Null, auth)
  ELSE CreateMeeting(auth.userId, data, Generated)

\* the access gate as the validate-access and join controllers call it
accessEndpoint(op, header, meetingId, password) ==
  LET auth == authenticate(header)
      result == validateMeetingAccess(meetings, participants, meetingId,
                                      password, auth.userId)
  IN
  IF auth.code # 0 THEN Unauthorized(op, header, meetingId, password, auth)
  ELSE
    /\ UNCHANGED <<now, meetings, participants, requests, store, responses>>
    /\ call' = [NoCall EXCEPT !.op = op, !.userId = auth.userId,
                              !.meetingId = meetingId, !.password = password,
                              !.fields = headersOf(header),
                              !.code = IF result.canJoin THEN 200 ELSE 403,
                              !.error = result.error, !.canJoin = result.canJoin,
                              !.joinInfo = result.joinInfo]

\* POST /api/calendar/meetings/:id/validate-access
PostValidateAccess(header, meetingId, password) ==
  accessEndpoint("POST /meetings/:id/validate-access", header, meetingId, password)

\* POST /api/calendar/join/:id
PostJoin(header, meetingId, password) ==
  accessEndpoint("POST /join/:id", header, meetingId, password)

\* POST /api/calendar/meetings/:id/participants
PostParticipants(header, meetingId, entries) ==
  LET auth == authenticate(header)
      op == "POST /meetings/:id/participants"
      added == AddLoop(participants, meetingId, entries)
      returned(code, error) ==
        call' = [Returned(op, auth.userId, meetingId, headersOf(header), 0, 0,
                          code, error, {}) EXCEPT !.entries = entries]
  IN
  IF auth.code # 0 THEN Unauthorized(op, header, meetingId, Null, auth)
  ELSE
    /\ UNCHANGED <<now, meetings, requests, store, responses>>
    /\ IF meetingId \notin DOMAIN meetings
         THEN /\ returned(404, ErrNotFound)
              /\ UNCHANGED participants
         ELSE /\ participants' = added.rows
              /\ IF added.error = OK THEN returned(200, OK)
                                     ELSE returned(500, added.error)

----------------------------------------------------------------------------
(* SpecHttp: requests to the calendar router, with and without a token. *)

Headers == {NoAuthorization, Bearer(1, FALSE)} \cup {Bearer(u, TRUE) : u \in Users}

HttpCreateData ==
  {[title |-> "Standup", startTime |-> Step(1), endTime |-> Step(2),
    status |-> "scheduled", allowGuestAccess |-> g, generatePassword |-> FALSE,
    customPassword |-> pw, customAgoraChannelNameLen |-> 0, participants |-> <<>>]
     : g \in BOOLEAN, pw \in {Null, PasswordA}}

HttpIds == 1..(MaxHttpMeetings + 1)

NextHttp ==
  \/ \E h \in Headers, d \in HttpCreateData :
       PostMeetings(h, d) /\ Within(MaxHttpMeetings, MaxInvited)
  \/ \E h \in Headers, id \in HttpIds, pw \in {Null, PasswordA, PasswordB} :
       PostValidateAccess(h, id, pw)
  \/ \E h \in Headers, id \in HttpIds, pw \in {Null, PasswordA, PasswordB} :
       PostJoin(h, id, pw)
  \/ \E h \in Headers, id \in HttpIds, u \in Users :
       PostParticipants(h, id, <<UserEntry(u)>>) /\ Within(MaxHttpMeetings, MaxInvited)

SpecHttp == Init /\ [][NextHttp]_vars

----------------------------------------------------------------------------
(* middleware/rateLimiter.ts *)

\* RATE_LIMIT_WINDOW_MS and RATE_LIMIT_MAX_REQUESTS in the model's environment
windowMs == 2
maxRequests == 2

\* the clients, each with an IP address of its own
Clients == 1..MaxClients

\* the entries of the store that are not expired at time t
cleanUp(st, t) ==
  [key \in {k \in DOMAIN st : ~ (st[k].resetTime < t)} |-> st[key]]

\* the limit test one request late
limitExceeded_OneLate(count) == count > maxRequests + 1

\* the limit test: count > maxRequests
limitExceeded(count) == count > maxRequests

\* rateLimiter(req, res, next) for a request of clientId
RateLimiter(clientId) ==
  LET cleaned == cleanUp(store, now)
      fresh == IF clientId \notin DOMAIN cleaned THEN TRUE
               ELSE cleaned[clientId].resetTime < now
      entry == IF fresh THEN [count |-> 1, resetTime |-> now + windowMs]
               ELSE [count |-> cleaned[clientId].count + 1,
                     resetTime |-> cleaned[clientId].resetTime]
      passed == ~ limitExceeded(entry.count)
  IN
  /\ store' = (clientId :> entry) @@ cleaned
  /\ responses' = Append(responses, [clientId |-> clientId, time |-> now,
                                     passed |-> passed])
  /\ call' = [NoCall EXCEPT !.op = "rateLimiter", !.userId = clientId,
                            !.code = IF passed THEN 0 ELSE 429]
  /\ UNCHANGED <<now, meetings, participants, requests>>

\* a millisecond passes
Wait ==
  /\ now < MaxRateClock
  /\ now' = now + 1
  /\ call' = [NoCall EXCEPT !.op = "wait"]
  /\ UNCHANGED <<meetings, participants, requests, store, responses>>

----------------------------------------------------------------------------
(* SpecRate: requests of several clients to the rate limiter, over time. *)

NextRate ==
  \/ Wait
  \/ \E c \in Clients : Len(responses) < MaxRateRequests /\ RateLimiter(c)

SpecRate == Init /\ [][NextRate]_vars

----------------------------------------------------------------------------
(* SpecBooking: every operation that books or frees time, one call at a time. *)

BookingCreateData ==
  {[title |-> "Standup", startTime |-> Step(t[1]), endTime |-> Step(t[2]),
    status |-> "scheduled", allowGuestAccess |-> TRUE, generatePassword |-> FALSE,
    customPassword |-> Null, customAgoraChannelNameLen |-> 0, participants |-> <<>>]
     : t \in {<<1, 2>>, <<1, 3>>, <<2, 4>>, <<3, 4>>}}

BookingUpdateData == {[startTime |-> Step(2)], [endTime |-> Step(3)]}

BookingIds == 1..MaxBookingMeetings

NextBooking ==
  \/ \E o \in Users, d \in BookingCreateData :
       CreateMeeting(o, d, Generated) /\ Within(MaxBookingMeetings, MaxInvited)
  \/ \E id \in BookingIds, u \in Users, d \in BookingUpdateData : UpdateMeeting(id, u, d)
  \/ \E id \in BookingIds, u \in Users : CancelMeeting(id, u)
  \/ \E id \in BookingIds, u \in Users :
       AddParticipants(id, <<UserEntry(u)>>) /\ Within(MaxBookingMeetings, MaxInvited)
  \/ \E id \in BookingIds, u \in Users, st \in {"accepted", "declined"} :
       UpdateParticipantResponse(id, u, st)

SpecBooking == Init /\ [][NextBooking]_vars

----------------------------------------------------------------------------
(* SpecVisibility: meetings are created and shared, then listed and read. *)

VisCreateData ==
  {[title |-> "Standup", startTime |-> Step(t[1]), endTime |-> Step(t[2]),
    status |-> "scheduled", allowGuestAccess |-> TRUE, generatePassword |-> FALSE,
    customPassword |-> Null, customAgoraChannelNameLen |-> 0, participants |-> <<>>]
     : t \in {<<3, 4>>, <<1, 2>>}}

VisIds == 1..(MaxVisMeetings + 1)

\* the filters of the query string: none, organizerId, participantId, both
VisFilters ==
  {<<>>}
    \cup {[organizerId |-> u] : u \in Users}
    \cup {[participantId |-> u] : u \in Users}
    \cup {[organizerId |-> o, participantId |-> u] : o \in Users, u \in Users}

NextVisibility ==
  \/ \E o \in Users, d \in VisCreateData :
       CreateMeeting(o, d, Generated) /\ Within(MaxVisMeetings, MaxInvited)
  \/ \E id \in VisIds, u \in Users :
       AddParticipants(id, <<UserEntry(u)>>) /\ Within(MaxVisMeetings, MaxInvited)
  \/ \E u \in Users, filters \in VisFilters : GetMeetings(u, filters)
  \/ \E id \in VisIds, u \in Users : GetMeetingDetails(id, u)

SpecVisibility == Init /\ [][NextVisibility]_vars

----------------------------------------------------------------------------
(* Vocabulary of the properties, stated apart from the service's own checks *)

EightHours == 8 * 60 * 60 * 1000

\* [m.startTime, m.endTime) and [startTime, endTime) share an instant
HalfOpenOverlap(m, startTime, endTime) == m.startTime < endTime /\ m.endTime > startTime

HasRow(u, id) == \E r \in participants : r.meetingId = id /\ r.userId = u

HasAcceptedRow(u, id) ==
  \E r \in participants : r.meetingId = id /\ r.userId = u /\ r.status = "accepted"

OrganizesOrAttends(u, id) == meetings[id].organizerId = u \/ HasRow(u, id)

\* a meeting the conflict detector is to consider for actor u
Eligible(u, id) ==
  /\ meetings[id].status # "cancelled"
  /\ (meetings[id].organizerId = u \/ HasAcceptedRow(u, id))

\* times a request may carry that pass the validation of meeting times
TimesValid(startTime, endTime) ==
  startTime > now /\ endTime > startTime /\ endTime - startTime <= EightHours

QueryTimes == {Step(t) : t \in 0..MaxTime}

StoreUnchanged == meetings' = meetings /\ participants' = participants

----------------------------------------------------------------------------
(* C1 *)

\* the non-cancelled meetings of actor u, other than `exclude`, that overlap
\* [startTime, endTime)
Blocking(u, startTime, endTime, exclude) ==
  {id \in DOMAIN meetings :
     /\ id # exclude
     /\ OrganizesOrAttends(u, id)
     /\ meetings[id].status # "cancelled"
     /\ HalfOpenOverlap(meetings[id], startTime, endTime)}

ConflictRejection(blocking) ==
  /\ call'.code = 400
  /\ call'.error = ErrConflict
  /\ titlesOf(meetings, blocking) \subseteq call'.conflicts
  /\ StoreUnchanged

C1_Step ==
  LET u == call'.userId
      s == call'.startTime
      e == call'.endTime
      id == call'.meetingId
  IN
  /\ (/\ call'.op = "createMeeting"
      /\ TimesValid(s, e)
      /\ Blocking(u, s, e, 0) # {})
       => ConflictRejection(Blocking(u, s, e, 0))
  /\ (/\ call'.op = "updateMeeting"
      /\ id \in DOMAIN meetings
      /\ meetings[id].organizerId = u
      /\ meetings[id].status = "scheduled"
      /\ meetings[id].startTime > now
      /\ call'.fields \cap {"startTime", "endTime"} # {}
      /\ TimesValid(s, e)
      /\ Blocking(u, s, e, id) # {})
       => ConflictRejection(Blocking(u, s, e, id))

\* C1: a createMeeting, or an updateMeeting of times by the organizer of a
\* modifiable meeting, whose (valid) new range [start,end) overlaps another
\* non-cancelled meeting that the actor organizes or attends is rejected with
\* status 400 and the conflict error naming that meeting's title, and the
\* store holds the same meetings and participant rows as before the call.
C1_OverlapRejected == [][C1_Step]_vars

\* an updateMeeting by the organizer was rejected with the conflict error, the
\* new range overlapping a meeting that another user organizes and the actor
\* attends
C1_Witness ==
  /\ call.op = "updateMeeting"
  /\ call.error = ErrConflict
  /\ \E id \in DOMAIN meetings :
       /\ id # call.meetingId
       /\ meetings[id].organizerId # call.userId
       /\ HasRow(call.userId, id)
       /\ HalfOpenOverlap(meetings[id], call.startTime, call.endTime)

----------------------------------------------------------------------------
(* C2 *)

\* C2: the conflict detector reports an eligible meeting M for a range
\* [start,end), start < end, exactly when M.start < end and M.end > start
\* (half-open intervals: back-to-back meetings are no conflict).
C2_HalfOpenDetector ==
  \A u \in Users, s \in QueryTimes, e \in QueryTimes :
    s < e =>
      \A id \in DOMAIN meetings :
        Eligible(u, id) =>
          (id \in checkTimeConflicts(meetings, participants, u, s, e, 0)
             <=> HalfOpenOverlap(meetings[id], s, e))

----------------------------------------------------------------------------
(* C3 *)

\* C3: every meeting checkTimeConflicts(actor, ...) returns is one the actor
\* organizes or attends with status accepted.
C3_OnlyOwnMeetings ==
  \A u \in Users, s \in QueryTimes, e \in QueryTimes :
    s < e =>
      \A id \in checkTimeConflicts(meetings, participants, u, s, e, 0) :
        meetings[id].organizerId = u \/ HasAcceptedRow(u, id)

----------------------------------------------------------------------------
(* C4 *)

\* the meetings that conflict with [startTime, endTime) for actor u: eligible
\* and overlapping as half-open intervals
Conflicting(u, startTime, endTime) ==
  {id \in DOMAIN meetings :
     Eligible(u, id) /\ HalfOpenOverlap(meetings[id], startTime, endTime)}

C4_Step ==
  LET s == call'.startTime
      e == call'.endTime
  IN
  call'.op = "createMeeting" =>
    /\ (s >= e \/ s <= now \/ e - s > EightHours) =>
         /\ call'.code = 400
         /\ call'.error \in {ErrStartInPast, ErrEndBeforeStart, ErrTooLong}
         /\ StoreUnchanged
    /\ (/\ s > now
        /\ e - s = EightHours
        /\ Conflicting(call'.userId, s, e) = {})
         => /\ call'.code = 201
            /\ Len(meetings') = Len(meetings) + 1
            /\ meetings'[Len(meetings')].startTime = s
            /\ meetings'[Len(meetings')].endTime = e
            /\ \E r \in participants' : r.meetingId = Len(meetings')

\* C4: createMeeting answers 400 with a time-validation error and persists
\* neither a meeting nor a participant row whenever start >= end, or start is
\* not after now, or end - start exceeds 8 hours; a meeting of exactly 8 hours
\* with a future start that conflicts with no meeting is created.
C4_TimeValidation == [][C4_Step]_vars

----------------------------------------------------------------------------
(* C5 *)

C5_Step ==
  LET id == call'.meetingId IN
  /\ \A k \in DOMAIN meetings :
       meetings[k].status = "cancelled" =>
         k \in DOMAIN meetings' /\ meetings'[k].status = "cancelled"
  /\ (call'.op = "cancelMeeting" /\ id \in DOMAIN meetings) =>
       /\ (meetings[id].organizerId = call'.userId
             /\ meetings[id].status = "scheduled") =>
            /\ call'.code = 200
            /\ meetings'[id].status = "cancelled"
       /\ meetings[id].status = "cancelled" =>
            /\ call'.code >= 400
            /\ call'.error # OK
            /\ StoreUnchanged

\* C5: cancelMeeting by the organizer on a scheduled meeting succeeds and
\* leaves its status cancelled; cancelMeeting on a cancelled meeting answers
\* an error and changes nothing; and no step of createMeeting, updateMeeting,
\* updateMeetingPassword, addParticipants, updateParticipantResponse or
\* cancelMeeting takes a cancelled meeting to another status.
C5_CancelledForever == [][C5_Step]_vars

\* the organizer cancelled a meeting that was already cancelled and was told so
C5_Witness ==
  /\ call.op = "cancelMeeting"
  /\ call.meetingId \in DOMAIN meetings
  /\ meetings[call.meetingId].organizerId = call.userId
  /\ meetings[call.meetingId].status = "cancelled"
  /\ call.error = ErrAlreadyCancelled

----------------------------------------------------------------------------
(* C6 *)

C6_Step ==
  LET id == call'.meetingId IN
  call'.op \in {"updateMeeting", "cancelMeeting"} =>
    IF id \notin DOMAIN meetings
      THEN call'.code = 404 /\ StoreUnchanged
      ELSE meetings[id].organizerId # call'.userId =>
             /\ call'.code = 403
             /\ meetings'[id] = meetings[id]
             /\ StoreUnchanged

\* C6: updateMeeting and cancelMeeting called for an existing meeting by a user
\* other than its organizer answer 403 and leave every field of the meeting
\* as it was; called for an id that is not in the store they answer 404.
C6_OrganizerOnly == [][C6_Step]_vars

\* a user other than the organizer tried to cancel a scheduled meeting and was
\* refused with 403
C6_Witness ==
  /\ call.op = "cancelMeeting"
  /\ call.meetingId \in DOMAIN meetings
  /\ meetings[call.meetingId].organizerId # call.userId
  /\ meetings[call.meetingId].status = "scheduled"
  /\ call.code = 403

----------------------------------------------------------------------------
(* C7 *)

C7_Step ==
  LET id == call'.meetingId IN
  (/\ call'.op = "updateMeeting"
   /\ id \in DOMAIN meetings
   /\ meetings[id].organizerId = call'.userId
   /\ ~ (meetings[id].status = "scheduled" /\ meetings[id].startTime > now))
    => /\ call'.code = 400
       /\ call'.error = ErrNotModifiable
       /\ meetings'[id] = meetings[id]
       /\ StoreUnchanged

\* C7: updateMeeting by the organizer of a meeting whose status is not
\* scheduled, or whose start time is not after now, answers the
\* cannot-be-modified error and leaves the meeting unchanged, whichever fields
\* the update carries.
C7_NotModifiable == [][C7_Step]_vars

\* the organizer's update of the title alone was refused because the start time
\* of the still scheduled meeting had passed
C7_Witness ==
  /\ call.op = "updateMeeting"
  /\ call.fields = {"title"}
  /\ call.meetingId \in DOMAIN meetings
  /\ meetings[call.meetingId].organizerId = call.userId
  /\ meetings[call.meetingId].status = "scheduled"
  /\ meetings[call.meetingId].startTime <= now
  /\ call.error = ErrNotModifiable

----------------------------------------------------------------------------
(* C8 *)

\* the ordered decision: first failing check wins
OrderedDecision(id, password, userId) ==
  IF id \notin DOMAIN meetings THEN <<FALSE, ErrNotFound>>
  ELSE IF meetings[id].status = "cancelled" THEN <<FALSE, ErrAccessCancelled>>
  ELSE IF meetings[id].status = "completed" THEN <<FALSE, ErrAccessEnded>>
  ELSE IF meetings[id].isPasswordProtected /\ password = Null
    THEN <<FALSE, ErrPasswordRequired>>
  ELSE IF meetings[id].isPasswordProtected /\ password # meetings[id].meetingPassword
    THEN <<FALSE, ErrPasswordInvalid>>
  ELSE IF ~ HasRow(userId, id) /\ ~ meetings[id].allowGuestAccess
    THEN <<FALSE, ErrGuestNotAllowed>>
  ELSE <<TRUE, OK>>

\* C8: the canJoin and reason returned by validateMeetingAccess equal the
\* result of the ordered decision (missing, cancelled, completed, password
\* required or invalid for a protected meeting, guest access, grant) for every
\* status, protection flag, stored and supplied password, participation and
\* guest flag.
C8_DecisionOrder ==
  call.op = "validateMeetingAccess" =>
    <<call.canJoin, call.error>> =
      OrderedDecision(call.meetingId, call.password, call.userId)

----------------------------------------------------------------------------
(* C9 *)

\* C9: for a scheduled protected meeting with stored password p, a call with
\* no password or another password is denied and a call with p that passes the
\* guest check is granted; and no call is granted access to a meeting whose
\* isPasswordProtected flag is true unless it supplied the stored password.
C9_PasswordGate ==
  (call.op = "validateMeetingAccess" /\ call.meetingId \in DOMAIN meetings) =>
    LET m == meetings[call.meetingId] IN
    /\ (m.status = "scheduled" /\ m.isPasswordProtected
          /\ m.meetingPassword # Null) =>
         /\ call.password # m.meetingPassword => ~ call.canJoin
         /\ (/\ call.password = m.meetingPassword
             /\ (m.allowGuestAccess \/ HasRow(call.userId, call.meetingId)))
              => call.canJoin
    /\ (m.isPasswordProtected /\ call.canJoin) =>
         (m.meetingPassword # Null /\ call.password = m.meetingPassword)

----------------------------------------------------------------------------
(* C10 *)

\* C10: for a meeting that is neither cancelled nor completed: with
\* allowGuestAccess false a caller without a participant row (a caller without
\* identity included) is denied, with the guest-access reason when the password
\* check passes, and a caller with a row that passes the password check is
\* granted; with allowGuestAccess true every caller that passes the password
\* check is granted.
C10_GuestGating ==
  (call.op = "validateMeetingAccess" /\ call.meetingId \in DOMAIN meetings) =>
    LET m == meetings[call.meetingId]
        joinable == m.status \notin {"cancelled", "completed"}
        hasRow == HasRow(call.userId, call.meetingId)
        passwordPasses ==
          IF m.isPasswordProtected
            THEN m.meetingPassword # Null /\ call.password = m.meetingPassword
            ELSE TRUE
    IN
    joinable =>
      /\ (~ m.allowGuestAccess /\ ~ hasRow) =>
           /\ ~ call.canJoin
           /\ passwordPasses => call.error = ErrGuestNotAllowed
      /\ (~ m.allowGuestAccess /\ hasRow /\ passwordPasses) => call.canJoin
      /\ (m.allowGuestAccess /\ passwordPasses) => call.canJoin

\* a caller without identity who supplied the right password of a protected
\* meeting that does not admit guests was denied with the guest-access reason
C10_Witness ==
  /\ call.op = "validateMeetingAccess"
  /\ call.meetingId \in DOMAIN meetings
  /\ call.userId = 0
  /\ meetings[call.meetingId].status = "scheduled"
  /\ meetings[call.meetingId].isPasswordProtected
  /\ meetings[call.meetingId].meetingPassword = call.password
  /\ call.password # Null
  /\ ~ meetings[call.meetingId].allowGuestAccess
  /\ ~ call.canJoin
  /\ call.error = ErrGuestNotAllowed

----------------------------------------------------------------------------
(* C11 *)

\* passwords a meeting may store and a caller may supply
SomePasswords == {PasswordA, PasswordB}

\* C11: the value validateMeetingAccess returns with canJoin = true (the join
\* info and whatever is returned with it) is the same for two meetings that
\* differ only in their stored password: for the meeting of a granted call and
\* the same meeting with another stored password, whatever password the same
\* caller supplies, a granted result equals the one returned.
C11_NoPasswordInResult ==
  (/\ call.op = "validateMeetingAccess"
   /\ call.canJoin
   /\ meetings[call.meetingId].meetingPassword # Null) =>
    \A p \in SomePasswords, pw \in SomePasswords :
      LET other == [meetings EXCEPT ![call.meetingId].meetingPassword = p]
          r == validateMeetingAccess(other, participants, call.meetingId, pw,
                                     call.userId)
      IN r.canJoin => (r.joinInfo = call.joinInfo /\ r.meeting = call.meeting)

----------------------------------------------------------------------------
(* C12 *)

\* the meetings of actor u on the day of the windows asked for (day 0)
MeetingsOfDay(u) ==
  {id \in DOMAIN meetings :
     OrganizesOrAttends(u, id) /\ meetings[id].startTime \in 0..(DayMs - 1)}

Range(seq) == {seq[i] : i \in DOMAIN seq}

\* C12: getAvailableTimeSlots answers windows, each unavailable exactly when it
\* overlaps one of the actor's meetings of the day as half-open intervals
\* (window.start < M.end and window.end > M.start), the overlapping meetings
\* being its conflicts; so for the meeting 14:00-15:00, duration 60 and hours
\* 9..17 the windows of 13:30, 14:00 and 14:30 are unavailable and those of
\* 13:00 and 15:00 are available.
C12_SlotAvailability ==
  call.op = "getAvailableTimeSlots" =>
    /\ call.error = OK
    /\ \A i \in DOMAIN call.timeSlots :
         LET w == call.timeSlots[i]
             overlapping == {id \in MeetingsOfDay(call.userId) :
                               w.start < meetings[id].endTime
                                 /\ w.end > meetings[id].startTime}
         IN /\ w.available <=> overlapping = {}
            /\ Range(w.conflictingMeetings) = overlapping
    /\ (/\ call.duration = 60
        /\ call.startTime = At(9, 0) /\ call.endTime = At(17, 0)
        /\ \E id \in MeetingsOfDay(call.userId) :
             /\ MeetingsOfDay(call.userId) = {id}
             /\ meetings[id].startTime = At(14, 0)
             /\ meetings[id].endTime = At(15, 0))
         => \A h \in {At(13, 0), At(13, 30), At(14, 0), At(14, 30), At(15, 0)} :
              \E i \in DOMAIN call.timeSlots :
                /\ call.timeSlots[i].start = h
                /\ call.timeSlots[i].available <=> h \in {At(13, 0), At(15, 0)}

----------------------------------------------------------------------------
(* C13 *)

\* C13: for a duration of 15 to 480 minutes and working hours start < end,
\* getAvailableTimeSlots raises no error and answers windows whose starts run
\* from startHour:00 in steps of exactly 30 minutes, each ending duration
\* later and not after endHour:00, as many as fit; none when the duration
\* exceeds the working hours.
C13_SlotGeneration ==
  (call.op = "getAvailableTimeSlots" /\ call.duration \in 15..480) =>
    LET slots == call.timeSlots
        length == call.duration * 60 * 1000
    IN /\ call.error = OK
       /\ \A i \in DOMAIN slots :
            /\ slots[i].start = call.startTime + (i - 1) * SlotStep
            /\ slots[i].end = slots[i].start + length
            /\ slots[i].end <= call.endTime
       /\ call.startTime + Len(slots) * SlotStep + length > call.endTime
       /\ length > call.endTime - call.startTime => slots = <<>>

----------------------------------------------------------------------------
(* C14 *)

\* the strength policy of meeting passwords
MeetsPolicy(password) ==
  /\ Len(password) \in 4..50
  /\ \A i \in DOMAIN password : password[i] \in AllowedCharset

C14_Step ==
  LET id == call'.meetingId IN
  /\ (/\ call'.op = "createMeeting"
      /\ call'.code = 201
      /\ "generatePassword" \in call'.fields
      /\ "customPassword" \notin call'.fields)
       => /\ meetings'[id].isPasswordProtected
          /\ meetings'[id].meetingPassword # Null
          /\ MeetsPolicy(meetings'[id].meetingPassword)
  /\ (/\ call'.op = "updateMeetingPassword"
      /\ "removePassword" \in call'.fields
      /\ id \in DOMAIN meetings
      /\ meetings[id].organizerId = call'.userId)
       => /\ call'.code = 200
          /\ ~ meetings'[id].isPasswordProtected
          /\ meetings'[id].meetingPassword = Null
          /\ \A pw \in {Null, PasswordA, PasswordB}, u \in 0..NumUsers :
               validateMeetingAccess(meetings', participants', id, pw, u).error
                 \notin {ErrPasswordRequired, ErrPasswordInvalid}

\* C14: createMeeting with generatePassword and no custom password stores a
\* password that meets the strength policy (4 to 50 allowed characters) and
\* sets isPasswordProtected; updateMeetingPassword with removePassword by the
\* organizer then leaves isPasswordProtected false and the password null, and
\* validateMeetingAccess asks no caller for a password any more.
C14_PasswordRoundTrip == [][C14_Step]_vars

\* the organizer removed the password of a meeting created with a generated
\* one, and a caller without password was then granted access
C14_Witness ==
  /\ call.op = "validateMeetingAccess"
  /\ call.password = Null
  /\ call.canJoin
  /\ call.meetingId \in DOMAIN meetings
  /\ ~ meetings[call.meetingId].isPasswordProtected
  /\ meetings[call.meetingId].meetingPassword = Null

----------------------------------------------------------------------------
(* C15 *)

C15_Step ==
  LET id == call'.meetingId
      rowsOf(rows) == {r \in rows : r.meetingId = id}
  IN
  (/\ call'.op = "addParticipants"
   /\ id \in DOMAIN meetings
   /\ Len(call'.entries) = 1) =>
    LET p == call'.entries[1]
        known == IF p.userId # 0
                   THEN \E r \in rowsOf(participants) : r.userId = p.userId
                   ELSE \E r \in rowsOf(participants) : r.email = p.email
    IN /\ known => (call'.code = 200 /\ participants' = participants)
       /\ (~ known /\ p.userId = 0) =>
            /\ call'.code = 200
            /\ \E r \in participants' :
                 /\ r.meetingId = id /\ r.email = p.email /\ r.userId = 0
                 /\ r.status = "invited" /\ r.role = "attendee"
                 /\ participants' = participants \cup {r}

\* C15: addParticipants with the e-mail address of someone who is no user
\* creates one participant row of the meeting with that address, status
\* invited, role attendee and no user id; addParticipants with an address, or
\* a user id, that already has a row of the meeting answers without error and
\* leaves every participant row as it was.
C15_GuestAddedOnce == [][C15_Step]_vars

----------------------------------------------------------------------------
(* C16 *)

C16_Step ==
  (/\ call'.op \in {"createMeeting", "updateMeeting", "cancelMeeting",
                    "addParticipants", "updateMeetingPassword"}
   /\ call'.code >= 400)
    => StoreUnchanged

\* C16: when createMeeting, updateMeeting, cancelMeeting, addParticipants or
\* updateMeetingPassword ends in an error, the store holds exactly the
\* meetings and participant rows it held before the call.
C16_NoPartialCommit == [][C16_Step]_vars

----------------------------------------------------------------------------
(* C17 *)

\* meetings id1 < id2 of one organizer, neither cancelled, whose ranges overlap
DoubleBooked(id1, id2) ==
  /\ id1 < id2
  /\ meetings[id1].organizerId = meetings[id2].organizerId
  /\ meetings[id1].status # "cancelled"
  /\ meetings[id2].status # "cancelled"
  /\ HalfOpenOverlap(meetings[id1], meetings[id2].startTime, meetings[id2].endTime)

\* C17: createMeeting checks for conflicts and inserts in separate steps, with
\* no lock between them. One organizer ends up with two overlapping
\* non-cancelled meetings only through that gap: the later meeting was
\* inserted by a call whose conflict query ran before the earlier meeting was
\* in the store. A call whose query runs after the insert of the other, as
\* when the two run one after the other, is rejected.
C17_CheckInsertRace ==
  \A id1, id2 \in DOMAIN meetings :
    DoubleBooked(id1, id2)
      => \E r \in RequestIds : /\ requests[r].op = "createMeeting"
                               /\ requests[r].meetingId = id2
                               /\ requests[r].seen < id1

\* two calls in flight at once have both answered 201 and left one organizer
\* with two overlapping meetings
C17_Witness ==
  \E id1, id2 \in DOMAIN meetings :
    /\ DoubleBooked(id1, id2)
    /\ \E r1, r2 \in RequestIds :
         /\ requests[r1].meetingId = id1 /\ requests[r1].code = 201
         /\ requests[r2].meetingId = id2 /\ requests[r2].code = 201
         /\ requests[r1].op = "createMeeting" /\ requests[r2].op = "createMeeting"

----------------------------------------------------------------------------
(* C18 *)

\* C18: every stored meeting ends after it starts, in every reachable state:
\* after createMeeting and after every successful updateMeeting, partial
\* updates of startTime alone or endTime alone included.
C18_EndAfterStart ==
  \A id \in DOMAIN meetings : meetings[id].endTime > meetings[id].startTime

----------------------------------------------------------------------------
(* C19 *)

\* the participant rows of user u in meeting id
RowsOf(id, u) == {row \in participants : row.meetingId = id /\ row.userId = u}

\* a call of createMeeting has stored meeting id and not yet its organizer row
BeingCreated(id) ==
  \E r \in RequestIds : /\ requests[r].op = "createMeeting"
                        /\ requests[r].meetingId = id
                        /\ requests[r].pc = "createOrganizer"

\* C19: in every state reached by calls of createMeeting and addParticipants,
\* run in any order and interleaved in any way, a registered user has at most
\* one participant row per meeting, and every meeting createMeeting has stored
\* has exactly one row of its organizer, with status accepted and role
\* organizer.
C19_ParticipantRows ==
  /\ \A id \in DOMAIN meetings, u \in Users : Cardinality(RowsOf(id, u)) <= 1
  /\ \A id \in DOMAIN meetings :
       ~ BeingCreated(id)
         => \E row \in participants :
              /\ RowsOf(id, meetings[id].organizerId) = {row}
              /\ row.status = "accepted"
              /\ row.role = "organizer"

----------------------------------------------------------------------------
(* C20 *)

C20_Step ==
  LET u == call'.userId
      s == call'.startTime
      e == call'.endTime
      id == call'.meetingId
      others == Conflicting(u, s, e) \ {id}
  IN
  (/\ call'.op = "updateMeeting"
   /\ id \in DOMAIN meetings
   /\ meetings[id].organizerId = u
   /\ meetings[id].status = "scheduled"
   /\ meetings[id].startTime > now
   /\ call'.fields \cap {"startTime", "endTime"} # {}
   /\ TimesValid(s, e))
    => /\ others = {} =>
            /\ call'.code = 200
            /\ meetings'[id].startTime = s
            /\ meetings'[id].endTime = e
       /\ others # {} => ConflictRejection(others)

\* C20: the conflict check of updateMeeting leaves out the meeting being
\* updated. An update by the organizer whose new range [start, end) overlaps
\* no other eligible meeting succeeds, also when it overlaps the meeting's own
\* stored range; an update whose new range overlaps another eligible meeting
\* is rejected.
C20_RescheduleOverSelf == [][C20_Step]_vars

----------------------------------------------------------------------------
(* C21 *)

\* C21: the validate-access and join endpoints are public. A request without
\* a token to either of them, for a meeting that is open to guests and
\* protected by a password, is answered by the access gate: 403 for a wrong
\* password, 200 with the join info for the right one, and never 401.
C21_PublicAccess ==
  LET id == call.meetingId IN
  (/\ call.op \in {"POST /meetings/:id/validate-access", "POST /join/:id"}
   /\ "authorization" \notin call.fields
   /\ id \in DOMAIN meetings
   /\ meetings[id].status \notin {"cancelled", "completed"}
   /\ meetings[id].allowGuestAccess
   /\ requiresPassword(meetings[id]))
    => /\ call.code # 401
       /\ call.password = meetings[id].meetingPassword
            => call.code = 200 /\ call.joinInfo = getJoinInfo(meetings[id], id)
       /\ call.password \notin {Null, meetings[id].meetingPassword}
            => call.code = 403

----------------------------------------------------------------------------
(* C22 *)

\* the requests before request i that the same client made
Earlier(i) == {j \in 1..(i - 1) : responses[j].clientId = responses[i].clientId}

\* the time at which the window of request i started: the time of the
\* client's first request, or of its first request later than the reset time
\* (start + window) of the window before
RECURSIVE WindowStart(_)
WindowStart(i) ==
  IF Earlier(i) = {} THEN responses[i].time
  ELSE LET prev == CHOOSE j \in Earlier(i) : \A k \in Earlier(i) : k <= j
       IN IF responses[i].time > WindowStart(prev) + windowMs
            THEN responses[i].time
            ELSE WindowStart(prev)

\* the place of request i among its client's requests of the same window
PlaceInWindow(i) ==
  1 + Cardinality({j \in Earlier(i) : WindowStart(j) = WindowStart(i)})

\* C22: the rate limit is per client. In each window, which starts at a
\* client's first request and lasts windowMs, the client's first maxRequests
\* requests are passed on and every further one is answered 429; the first
\* request after the reset time starts a new window with count 1; the count
\* kept for a client depends on that client's requests alone.
C22_RateLimit ==
  /\ \A i \in DOMAIN responses :
       responses[i].passed <=> PlaceInWindow(i) <= maxRequests
  /\ \A i \in DOMAIN responses :
       (\A j \in DOMAIN responses : responses[j].clientId = responses[i].clientId => j <= i)
         => LET c == responses[i].clientId IN
            c \in DOMAIN store
              => /\ store[c].count = PlaceInWindow(i)
                 /\ store[c].resetTime = WindowStart(i) + windowMs
  /\ call.op = "rateLimiter"
       => (call.code = 429 <=> ~ responses[Len(responses)].passed)

\* a client was answered 429, another client was passed on in between, and
\* after the reset time the first client's request is passed on again
C22_Witness ==
  \E i, j, k \in DOMAIN responses :
    /\ i < j /\ j < k
    /\ responses[i].clientId = responses[k].clientId
    /\ responses[j].clientId # responses[i].clientId
    /\ ~ responses[i].passed
    /\ responses[j].passed
    /\ WindowStart(j) <= responses[i].time
    /\ responses[k].passed
    /\ PlaceInWindow(k) = 1
    /\ store[responses[k].clientId].count = 1

----------------------------------------------------------------------------
(* C23 *)

C23_Step ==
  LET id == call'.meetingId IN
  (/\ call'.op = "POST /meetings/:id/participants"
   /\ call'.userId \in Users
   /\ id \in DOMAIN meetings
   /\ meetings[id].organizerId # call'.userId)
    => /\ call'.code \in {401, 403}
       /\ participants' = participants

\* C23: adding participants is organizer-only. A request to add participants
\* to a meeting, made by an authenticated user who is not its organizer, is
\* rejected and creates no participant row.
C23_OrganizerOnlyAdd == [][C23_Step]_vars

----------------------------------------------------------------------------
(* C24 *)

C24_Step ==
  \A id \in DOMAIN meetings :
    meetings'[id] # meetings[id]
      => /\ call'.userId = meetings[id].organizerId
         /\ \/ /\ call'.op = "cancelMeeting"
               /\ meetings'[id] = [meetings[id] EXCEPT !.status = "cancelled"]
            \/ /\ call'.op \in {"updateMeeting", "updateMeetingPassword"}
               /\ meetings[id].status = "scheduled"
               /\ meetings[id].startTime > now

\* C24: a meeting's fields change only at the hands of its organizer and only
\* while the meeting is modifiable. Apart from the status change made by
\* cancelMeeting, neither updateMeeting nor updateMeetingPassword changes a
\* field of a meeting, its password and isPasswordProtected flag included,
\* once it is cancelled or its start time has passed.
C24_FrozenWhenNotModifiable == [][C24_Step]_vars

----------------------------------------------------------------------------
(* C25 *)

\* the non-cancelled meetings actor u organizes or attends that overlap
\* [start, end)
Occupying(u, start, end) ==
  {id \in DOMAIN meetings :
     /\ OrganizesOrAttends(u, id)
     /\ meetings[id].status # "cancelled"
     /\ HalfOpenOverlap(meetings[id], start, end)}

\* C25: a window getAvailableTimeSlots marks available overlaps no
\* non-cancelled meeting the actor organizes or attends, whichever way the
\* meeting overlaps the working hours; a meeting 08:30-09:30 with hours 9..17
\* makes the window of 09:00 unavailable.
C25_AvailableIsFree ==
  call.op = "getAvailableTimeSlots" =>
    /\ \A i \in DOMAIN call.timeSlots :
         call.timeSlots[i].available
           => Occupying(call.userId, call.timeSlots[i].start, call.timeSlots[i].end) = {}
    /\ (/\ call.startTime = At(9, 0) /\ call.endTime = At(17, 0)
        /\ call.duration <= 480
        /\ \E id \in Occupying(call.userId, At(9, 0), At(17, 0)) :
             /\ meetings[id].startTime = At(8, 30)
             /\ meetings[id].endTime = At(9, 30))
         => \E i \in DOMAIN call.timeSlots :
              /\ call.timeSlots[i].start = At(9, 0)
              /\ ~ call.timeSlots[i].available

----------------------------------------------------------------------------
(* C26 *)

\* C26: availability follows the eligibility rule of the conflict detector. A
\* window is unavailable only because of an overlapping meeting that is not
\* cancelled and that the actor organizes or has accepted; when the actor has
\* no such meeting on the day (the only one was cancelled, or the actor is
\* merely invited or has declined), the call answers the windows of the day
\* and every one of them is available.
C26_EligibleOnly ==
  call.op = "getAvailableTimeSlots" =>
    /\ \A i \in DOMAIN call.timeSlots :
         ~ call.timeSlots[i].available
           => \E id \in DOMAIN meetings :
                /\ Eligible(call.userId, id)
                /\ HalfOpenOverlap(meetings[id], call.timeSlots[i].start,
                                   call.timeSlots[i].end)
    /\ (/\ meetings # <<>>
        /\ \A id \in DOMAIN meetings : ~ Eligible(call.userId, id)
        /\ call.duration * 60 * 1000 <= call.endTime - call.startTime)
         => /\ call.error = OK
            /\ call.timeSlots # <<>>
            /\ \A i \in DOMAIN call.timeSlots : call.timeSlots[i].available

----------------------------------------------------------------------------
(* C27 *)

C27_Step ==
  LET id == call'.meetingId
      entries == call'.entries
      emails == {entries[i].email : i \in DOMAIN entries}
      known == {r.email : r \in {row \in participants : row.meetingId = id}}
  IN
  (/\ call'.op = "addParticipants"
   /\ id \in DOMAIN meetings
   /\ entries # <<>>
   /\ \A i \in DOMAIN entries : entries[i].userId = 0)
    => /\ call'.code = 200
       /\ \A r \in participants' \ participants :
            /\ r.meetingId = id
            /\ r.email \in emails \ known
       /\ \A e \in emails :
            Cardinality({r \in participants' : r.meetingId = id /\ r.email = e}) = 1

\* C27: guests are told apart by (meetingId, e-mail). addParticipants with
\* guests of different addresses, in one call or in several, succeeds and
\* leaves one participant row of the meeting per address; only an address
\* that has a row already is skipped.
C27_GuestsByEmail == [][C27_Step]_vars

----------------------------------------------------------------------------
(* C28 *)

\* C28: in every reachable state a meeting's isPasswordProtected flag is true
\* exactly when the meeting has a stored password: after createMeeting, and
\* after every successful updateMeeting (also one that carries meetingPassword
\* or isPasswordProtected alone) and updateMeetingPassword.
C28_FlagIffPassword ==
  \A id \in DOMAIN meetings :
    meetings[id].isPasswordProtected <=> meetings[id].meetingPassword # Null

----------------------------------------------------------------------------
(* C29 *)

\* user u is the organizer or an accepted participant of the two distinct
\* non-cancelled meetings id1 and id2, whose ranges overlap
DoubleBookedUser(u, id1, id2) ==
  /\ id1 # id2
  /\ Eligible(u, id1)
  /\ Eligible(u, id2)
  /\ HalfOpenOverlap(meetings[id1], meetings[id2].startTime, meetings[id2].endTime)

\* C29: when the calls run one after the other, no user is the organizer or
\* an accepted participant of two non-cancelled meetings whose ranges
\* [start, end) overlap; accepting an invitation does not double-book either.
C29_NoDoubleBooking ==
  \A u \in Users, id1, id2 \in DOMAIN meetings : ~ DoubleBookedUser(u, id1, id2)

\* A user who organizes one non-cancelled meeting has just accepted the
\* invitation to another non-cancelled meeting.
C29_Witness ==
  /\ call.op = "updateParticipantResponse"
  /\ call.code = 200
  /\ \E u \in Users, id1, id2 \in DOMAIN meetings :
       /\ id1 # id2
       /\ call.meetingId = id2
       /\ call.userId = u
       /\ meetings[id1].organizerId = u
       /\ meetings[id1].status # "cancelled"
       /\ meetings[id2].organizerId # u
       /\ Eligible(u, id2)

----------------------------------------------------------------------------
(* C30 *)

\* userId organizes the meeting or has a participant row in it
Visible(u, id) == id \in DOMAIN meetings /\ (meetings[id].organizerId = u \/ HasRow(u, id))

\* what the last getMeetings call handed back shows only the caller's meetings,
\* each once, earliest first
ListIsOwn ==
  /\ \A i \in DOMAIN call.list : Visible(call.userId, call.list[i])
  /\ \A i, j \in DOMAIN call.list : i # j => call.list[i] # call.list[j]
  /\ \A i, j \in DOMAIN call.list :
       i < j => meetings[call.list[i]].startTime <= meetings[call.list[j]].startTime

\* C30: for every user and every combination of filters getMeetings answers
\* with a list that holds only meetings the caller organizes or has a
\* participant row in, each at most once, in ascending order of start time;
\* getMeetingDetails hands a meeting only to its organizer or a participant and
\* answers 403 to anyone else.
C30_Visibility ==
  /\ call.op = "getMeetings" => call.error = OK /\ ListIsOwn
  /\ call.op = "getMeetingDetails" /\ call.code = 200 =>
       Visible(call.userId, call.meetingId)
  /\ call.op = "getMeetingDetails" /\ call.meetingId \in DOMAIN meetings
       /\ ~ Visible(call.userId, call.meetingId) => call.code = 403

\* the part of C30 about the list alone, whatever the call's outcome
C30_ListIsOwn == call.op = "getMeetings" => ListIsOwn

\* the part of C30 about getMeetingDetails
C30_DetailsGuarded ==
  /\ call.op = "getMeetingDetails" /\ call.code = 200 =>
       Visible(call.userId, call.meetingId)
  /\ call.op = "getMeetingDetails" /\ call.meetingId \in DOMAIN meetings
       /\ ~ Visible(call.userId, call.meetingId) => call.code = 403

====
